---------------------------- MODULE Spec2Model ----------------------------
(***************************************************************************)
(* A model of the RIFT-0 tokenization engine (obinexus/rift):              *)
(*   - the TokenTriplet codec            (tokenizer_rules.c, 34-72)        *)
(*   - the two tokenizer sessions        (tokenizer.c, tokenizer_rules.c)  *)
(*   - the DFA and the R-syntax regex    (tokenizer_rules.c, 80-411)       *)
(*   - the compiled-pattern cache        (tokenizer_utilities.c, 19-235)   *)
(* Each subsystem has its own specification over its own variables; the    *)
(* variables of the other subsystems stay at their initial values.         *)
(***************************************************************************)
EXTENDS Integers, Sequences, FiniteSets, TLC

VARIABLES
    ctx,            \* the TokenizerContext of the session under test
    tk,             \* the last rift_token_create call: its arguments and result
    dfa,            \* the heap of DFAState objects built through the DFA API
    dfa_run,        \* the last rift_dfa_process_input call
    regs,           \* the RegexComposition objects compiled or composed so far
    rx_last,        \* the last call of rift_regex_match, rift_regex_find or a flag parser
    heap,           \* the CompiledPattern objects ever allocated
    pattern_cache,  \* pattern_cache[0 .. pattern_cache_count-1]
    mutex,          \* owner of pattern_cache_mutex (0: unlocked)
    pc,             \* per thread: where it is inside compile/release
    loc,            \* per thread: the locals of the call in progress
    held,           \* per thread: the references it was handed and has not released
    hist,           \* history of the cache: what lookups and frees did
    handshake       \* history of the top-down/bottom-up handshake calls

tokVars   == <<ctx>>
tkVars    == <<tk>>
dfaVars   == <<dfa, dfa_run>>
rxVars    == <<regs, rx_last>>
cacheVars == <<heap, pattern_cache, mutex, pc, loc, held, hist>>
hsVars    == <<handshake>>
vars      == <<ctx, tk, dfa, dfa_run, regs, rx_last,
               heap, pattern_cache, mutex, pc, loc, held, hist, handshake>>

(***************************************************************************)
(* The initial values of the subsystems                                    *)
(***************************************************************************)
TokInit   == ctx = [impl |-> "none"]
TkInit    == tk = [called |-> FALSE]
DfaInit   == dfa = <<>> /\ dfa_run = [called |-> FALSE, runs |-> 0]
RxInit    == regs = <<>> /\ rx_last = [called |-> FALSE]
Threads == 1..2
Idle == [op |-> "none"]
CacheInit ==
    /\ heap = <<>>
    /\ pattern_cache = <<>>
    /\ mutex = 0
    /\ pc = [t \in Threads |-> "idle"]
    /\ loc = [t \in Threads |-> Idle]
    /\ held = [t \in Threads |-> <<>>]
    /\ hist = [uaf |-> FALSE]

HsThreads == 1..3
HsInit ==
    handshake = [signals |-> {}, last |-> [t \in HsThreads |-> Idle]]

Init == TokInit /\ TkInit /\ DfaInit /\ RxInit /\ CacheInit /\ HsInit

(***************************************************************************)
(* Token kinds and flags (tokenizer_types.h)                               *)
(***************************************************************************)
TOKEN_UNKNOWN        == 0
TOKEN_IDENTIFIER     == 1
TOKEN_KEYWORD        == 2
TOKEN_LITERAL_NUMBER == 3
TOKEN_LITERAL_STRING == 4
TOKEN_OPERATOR       == 5
TOKEN_PUNCTUATION    == 6
TOKEN_WHITESPACE     == 7
TOKEN_COMMENT        == 8
TOKEN_EOF            == 9
TOKEN_ERROR          == 10
TOKEN_REGEX_START    == 11
TOKEN_REGEX_END      == 12
TOKEN_DFA_STATE      == 17
TOKEN_MAX            == 255
TOKEN_FLAG_GLOBAL    == 1
TOKEN_FLAG_MULTILINE == 2
TOKEN_FLAG_IGNORECASE == 4
TOKEN_FLAG_TOPDOWN   == 8
TOKEN_FLAG_BOTTOMUP  == 16
TOKEN_FLAG_COMPOSED  == 32
TOKEN_FLAG_ERROR     == 128

RIFT_DEFAULT_TOKEN_CAPACITY == 1024
RIFT_MAX_TOKEN_LENGTH   == 4096
RIFT_MAX_PATTERN_LENGTH == 1024
\* tokenizer.c names its default RIFT_TOKENIZER_DEFAULT_CAPACITY; no header of the
\* repository defines it, and any value above the longest input acts the same here.
RIFT_TOKENIZER_DEFAULT_CAPACITY == RIFT_DEFAULT_TOKEN_CAPACITY

Max(a, b) == IF a > b THEN a ELSE b
Min(a, b) == IF a < b THEN a ELSE b

(***************************************************************************)
(* TokenTriplet: 32 bits holding an 8-bit type, a 16-bit mem_ptr and an    *)
(* 8-bit value bitfield.                                                   *)
(***************************************************************************)
\* The four bytes of the packed struct, in memory order: type in byte 0, mem_ptr
\* in bytes 1-2 (low byte first), value in byte 3.
TokenTriplet(type, mem_ptr, value) ==
    <<type % 256, mem_ptr % 256, (mem_ptr \div 256) % 256, value % 256>>

\* a variant of TokenMemPtr for an 8-bit mem_ptr field
TokenMemPtr_Narrow(word) == word[2]

TokenType(word)   == word[1]
TokenMemPtr(word) == word[2] + word[3] * 256
TokenValue(word)  == word[4]

\* The token as the field projection of the packed word.
TokenFields(word) ==
    [type |-> TokenType(word), mem_ptr |-> TokenMemPtr(word), value |-> TokenValue(word)]

\* rift_token_create: the parameters are uint8_t, uint16_t, uint8_t, so the
\* arguments are converted at the call; the three assertions compare the stored
\* field with the converted parameter.
rift_token_create(type, mem_ptr, value) ==
    LET t == type % 256
        m == mem_ptr % 65536
        v == value % 256
        token == TokenFields(TokenTriplet(t, m, v))
    IN  [token |-> token,
         asserts |-> token.type = t /\ token.mem_ptr = m /\ token.value = v]

\* rift_token_is_valid on a non-null token
rift_token_is_valid(token) ==
    IF token.type >= TOKEN_MAX THEN FALSE
    ELSE IF token.mem_ptr > RIFT_MAX_TOKEN_LENGTH THEN FALSE
    ELSE TRUE

\* validate_token_triplet on a non-null token: 0, or RIFT_ERROR_POLICY_VIOLATION.
\* The three range tests are on the fields of the packed word; the last test is
\* on sizeof(TokenTriplet), the number of bytes of the word.
validate_token_triplet(token) ==
    IF token.type > 255 THEN "RIFT_ERROR_POLICY_VIOLATION"
    ELSE IF token.mem_ptr > 65535 THEN "RIFT_ERROR_POLICY_VIOLATION"
    ELSE IF token.value > 255 THEN "RIFT_ERROR_POLICY_VIOLATION"
    ELSE IF token.type >= TOKEN_ERROR /\ token.type # TOKEN_ERROR
    THEN "RIFT_ERROR_POLICY_VIOLATION"
    ELSE IF Len(TokenTriplet(token.type, token.mem_ptr, token.value)) # 4
    THEN "RIFT_ERROR_POLICY_VIOLATION"
    ELSE "0"

(***************************************************************************)
(* The tokenizer sessions.  impl = "core" is tokenizer.c, impl = "rules"   *)
(* is tokenizer_rules.c.                                                   *)
(***************************************************************************)
Letters == {"l", "e", "t", "x", "a"}
Digits  == {"4", "2"}
Spaces  == {" ", "\n"}

\* <ctype.h> in the C locale, on the characters the inputs are drawn from
isalpha(ch) == ch \in Letters
isdigit(ch) == ch \in Digits
isspace(ch) == ch \in Spaces

\* the classification of tokenizer.c
CoreClassify(ch) ==
    IF ch \in Letters THEN TOKEN_IDENTIFIER
    ELSE IF ch \in Digits THEN TOKEN_LITERAL_NUMBER
    ELSE IF ch \in {" ", "\t", "\n", "\r"} THEN TOKEN_WHITESPACE
    ELSE IF ch \in {"+", "-", "*", "/"} THEN TOKEN_OPERATOR
    ELSE TOKEN_PUNCTUATION

\* the classification of tokenizer_rules.c (of a character that is not a space)
RulesClassify(ch) ==
    IF isalpha(ch) THEN TOKEN_IDENTIFIER
    ELSE IF isdigit(ch) THEN TOKEN_LITERAL_NUMBER
    ELSE TOKEN_PUNCTUATION

\* Bounds of the session model
MaxInputLen == 2
MaxCapacity == 3
MaxNextCalls == 3               \* next_token calls between two process calls

InputAlphabet == {"a", "4", " ", "\n", "+"}

RECURSIVE SeqsUpTo(_, _)
SeqsUpTo(S, n) ==
    IF n = 0 THEN {<<>>}
    ELSE LET shorter == SeqsUpTo(S, n - 1)
         IN  shorter \cup {Append(s, c) : s \in {x \in shorter : Len(x) = n - 1}, c \in S}

\* the input of end-to-end scenario A
LetX42 == <<"l", "e", "t", " ", "x", " ", "=", " ", "4", "2", ";">>

Inputs == SeqsUpTo(InputAlphabet, MaxInputLen) \cup {LetX42}

NoCtx == [impl |-> "none"]

\* buf with slot i (1-based) overwritten; slots are written in order, so i <= Len(buf)+1
WriteAt(buf, i, tok) ==
    [j \in 1..Max(Len(buf), i) |-> IF j = i THEN tok ELSE buf[j]]

\* history of a process call that does not follow another process call
NoRepeat == [valid |-> FALSE, ret |-> FALSE, out |-> <<>>]

\* rift_tokenizer_create (both files): a zero capacity selects the default
rift_tokenizer_create(impl, initial_capacity) ==
    [impl |-> impl,
     input_null |-> TRUE, input_buffer |-> <<>>, input_length |-> 0,
     position |-> 0,            \* current_position (rules), input_position (core)
     pos |-> 0,                 \* the local pos of tokenizer.c's process
     line_number |-> 1, column_number |-> 1,
     tokens |-> <<>>, token_count |-> 0,
     token_capacity |-> IF initial_capacity > 0 THEN initial_capacity
                        ELSE IF impl = "core" THEN RIFT_TOKENIZER_DEFAULT_CAPACITY
                        ELSE RIFT_DEFAULT_TOKEN_CAPACITY,
     has_error |-> FALSE,
     error_message |-> IF impl = "core" THEN "NULL" ELSE "",
     error_position |-> 0,
     asserts_ok |-> TRUE,       \* no assertion of rift_token_create has failed
     state |-> "Created",       \* where the session is: Created, InputSet, Processing, Done, Errored
     reset_from |-> "none",     \* history: where the session was when it was last reset
     repeat_of |-> NoRepeat,    \* history: what the process call before this one returned
     streamed |-> <<>>,         \* history: what next_token has returned since the last process
     last_call |-> "create", last_ret |-> TRUE]

Create ==
    /\ ctx = NoCtx
    /\ \E impl \in {"core", "rules"}, cap \in 0..MaxCapacity :
          ctx' = rift_tokenizer_create(impl, cap)
    /\ UNCHANGED <<tkVars, dfaVars, rxVars, cacheVars, hsVars>>

\* strdup of an error message: NULL when the allocation fails
strdup(message, strdup_ok) == IF strdup_ok THEN message ELSE "NULL"

\* rift_tokenizer_set_input.  tokenizer.c copies the buffer (malloc may fail) and
\* resets input_position only; tokenizer_rules.c borrows it and resets the cursor,
\* the line and column, the token count and has_error.
core_set_input(c, input, malloc_ok, strdup_ok) ==
    IF ~malloc_ok
    THEN [c EXCEPT !.input_null = TRUE, !.input_buffer = <<>>,
                   !.has_error = TRUE,
                   !.error_message = strdup("Memory allocation failed for input buffer",
                                            strdup_ok),
                   !.reset_from = "none", !.repeat_of = NoRepeat,
                   !.last_call = "set_input", !.last_ret = FALSE]
    ELSE [c EXCEPT !.input_null = FALSE, !.input_buffer = input,
                   !.input_length = Len(input), !.position = 0,
                   !.state = "InputSet", !.reset_from = "none", !.repeat_of = NoRepeat,
                   !.last_call = "set_input", !.last_ret = TRUE]

rules_set_input(c, input) ==
    [c EXCEPT !.input_null = FALSE, !.input_buffer = input,
              !.input_length = Len(input), !.position = 0,
              !.line_number = 1, !.column_number = 1,
              !.token_count = 0, !.has_error = FALSE,
              !.state = "InputSet", !.reset_from = "none", !.repeat_of = NoRepeat,
              !.last_call = "set_input", !.last_ret = TRUE]

\* rift_tokenizer_set_input_file (tokenizer.c only) with a non-null file name.
\* outcome is how far the file access gets: fopen fails, ftell reports a negative
\* size, the buffer allocation fails, fread comes up short, or the contents are
\* read and handed to rift_tokenizer_set_input.
FileOutcomes == {"open_failed", "size_failed", "malloc_failed", "read_failed", "read"}

FileError(outcome) ==
    CASE outcome = "open_failed"   -> "Failed to open input file"
      [] outcome = "size_failed"   -> "Failed to determine file size"
      [] outcome = "malloc_failed" -> "Memory allocation failed for file buffer"
      [] outcome = "read_failed"   -> "Failed to read complete file"

core_set_input_file(c, outcome, contents, malloc_ok, strdup_ok) ==
    IF outcome = "read" THEN core_set_input(c, contents, malloc_ok, strdup_ok)
    ELSE [c EXCEPT !.has_error = TRUE,
                   !.error_message = strdup(FileError(outcome), strdup_ok),
                   !.repeat_of = NoRepeat,
                   !.last_call = "set_input", !.last_ret = FALSE]

SetInputFile ==
    /\ ctx # NoCtx
    /\ ctx.impl = "core"
    /\ ctx.state # "Processing"
    /\ \E outcome \in FileOutcomes :
          IF outcome = "read"
          THEN \/ \E contents \in Inputs :
                     ctx' = core_set_input_file(ctx, outcome, contents, TRUE, TRUE)
               \/ \E strdup_ok \in BOOLEAN :
                     ctx' = core_set_input_file(ctx, outcome, <<>>, FALSE, strdup_ok)
          ELSE \E strdup_ok \in BOOLEAN :
                  ctx' = core_set_input_file(ctx, outcome, <<>>, TRUE, strdup_ok)
    /\ UNCHANGED <<tkVars, dfaVars, rxVars, cacheVars, hsVars>>

SetInput ==
    /\ ctx # NoCtx
    /\ ctx.state # "Processing"
    /\ \/ \E input \in Inputs :
             ctx' = IF ctx.impl = "core" THEN core_set_input(ctx, input, TRUE, TRUE)
                    ELSE rules_set_input(ctx, input)
       \/ /\ ctx.impl = "core"
          /\ \E strdup_ok \in BOOLEAN :
                ctx' = core_set_input(ctx, <<>>, FALSE, strdup_ok)
    /\ UNCHANGED <<tkVars, dfaVars, rxVars, cacheVars, hsVars>>

\* a variant of core_reset that leaves has_error as it is
core_reset_KeepError(c) ==
    [c EXCEPT !.token_count = 0, !.position = 0,
              !.error_message = "NULL",
              !.state = IF c.input_null THEN "Created" ELSE "InputSet",
              !.reset_from = IF c.last_call = "process" /\ ~c.input_null
                             THEN c.state ELSE "other",
              !.repeat_of = NoRepeat,
              !.last_call = "reset", !.last_ret = TRUE]

\* rift_tokenizer_reset (tokenizer.c; tokenizer_rules.c defines none).  The
\* macro RIFT_SAFE_FREE frees the message and stores NULL in the field.
core_reset(c) ==
    [c EXCEPT !.token_count = 0, !.position = 0,
              !.has_error = FALSE,
              !.error_message = "NULL",
              !.state = IF c.input_null THEN "Created" ELSE "InputSet",
              !.reset_from = IF c.last_call = "process" /\ ~c.input_null
                             THEN c.state ELSE "other",
              !.repeat_of = NoRepeat,
              !.last_call = "reset", !.last_ret = TRUE]

Reset ==
    /\ ctx # NoCtx
    /\ ctx.impl = "core"
    /\ ctx.state # "Processing"
    /\ ctx' = core_reset(ctx)
    /\ UNCHANGED <<tkVars, dfaVars, rxVars, cacheVars, hsVars>>

\* a variant of process_begin that keeps the token count of the previous call
process_begin_KeepCount(c) ==
    IF c.input_null
    THEN [c EXCEPT !.last_call = "process", !.last_ret = FALSE]
    ELSE IF c.impl = "core"
    THEN [c EXCEPT !.pos = 0, !.state = "Processing", !.last_call = "process"]
    ELSE [c EXCEPT !.has_error = FALSE,
                   !.state = "Processing", !.last_call = "process"]

\* a variant of process_begin that takes a missing input for an empty one
process_begin_NullAsEmpty(c) ==
    IF c.input_null
    THEN [c EXCEPT !.tokens = WriteAt(c.tokens, 1, [type |-> TOKEN_EOF, mem_ptr |-> 0,
                                                    value |-> 0]),
                   !.token_count = 1, !.state = "Done",
                   !.last_call = "process", !.last_ret = TRUE]
    ELSE IF c.impl = "core"
    THEN [c EXCEPT !.token_count = 0, !.pos = 0,
                   !.state = "Processing", !.last_call = "process"]
    ELSE [c EXCEPT !.token_count = 0, !.has_error = FALSE,
                   !.state = "Processing", !.last_call = "process"]

\* rift_tokenizer_process, prologue: the null checks and the resets before the loop.
\* tokenizer.c restarts at pos = 0; tokenizer_rules.c goes on from current_position.
process_begin(c) ==
    IF c.input_null
    THEN [c EXCEPT !.last_call = "process", !.last_ret = FALSE]
    ELSE IF c.impl = "core"
    THEN [c EXCEPT !.token_count = 0, !.pos = 0,
                   !.state = "Processing", !.last_call = "process"]
    ELSE [c EXCEPT !.token_count = 0, !.has_error = FALSE,
                   !.state = "Processing", !.last_call = "process"]

\* the store of a token in slot token_count and the increment of token_count
emit(c, type, mem_ptr, value) ==
    LET r == rift_token_create(type, mem_ptr, value)
    IN  [c EXCEPT !.tokens = WriteAt(c.tokens, c.token_count + 1, r.token),
                  !.token_count = c.token_count + 1,
                  !.asserts_ok = c.asserts_ok /\ r.asserts]

\* one iteration of tokenizer.c's loop (pos < input_length)
core_process_char(c, realloc_ok, strdup_ok) ==
    IF c.token_count >= c.token_capacity /\ ~realloc_ok
    THEN [c EXCEPT !.has_error = TRUE,
                   !.error_message = strdup("Token capacity expansion failed", strdup_ok),
                   !.state = "Errored", !.last_ret = FALSE]
    ELSE LET grown == IF c.token_count >= c.token_capacity
                      THEN [c EXCEPT !.token_capacity = c.token_capacity * 2]
                      ELSE c
             ch == c.input_buffer[c.pos + 1]
             out == emit(grown, CoreClassify(ch), c.pos, 0)
         IN  [out EXCEPT !.pos = c.pos + 1]

\* a variant of the iteration in which a newline leaves the column alone
rules_process_char_KeepColumn(c) ==
    IF c.token_count >= c.token_capacity
    THEN [c EXCEPT !.error_message =
                       "Token buffer overflow at position " \o ToString(c.position),
                   !.has_error = TRUE,
                   !.state = "Errored", !.last_ret = FALSE]
    ELSE LET ch == c.input_buffer[c.position + 1]
         IN  IF isspace(ch)
             THEN [c EXCEPT !.line_number = IF ch = "\n" THEN c.line_number + 1
                                            ELSE c.line_number,
                            !.column_number = IF ch = "\n" THEN c.column_number
                                              ELSE c.column_number + 1,
                            !.position = c.position + 1]
             ELSE LET out == emit(c, RulesClassify(ch), c.position % 65536, 0)
                  IN  [out EXCEPT !.position = c.position + 1,
                                  !.column_number = c.column_number + 1]

\* one iteration of tokenizer_rules.c's loop (current_position < buffer_length)
rules_process_char(c) ==
    IF c.token_count >= c.token_capacity
    THEN [c EXCEPT !.error_message =
                       "Token buffer overflow at position " \o ToString(c.position),
                   !.has_error = TRUE,
                   !.state = "Errored", !.last_ret = FALSE]
    ELSE LET ch == c.input_buffer[c.position + 1]
         IN  IF isspace(ch)
             THEN [c EXCEPT !.line_number = IF ch = "\n" THEN c.line_number + 1
                                            ELSE c.line_number,
                            !.column_number = IF ch = "\n" THEN 1
                                              ELSE c.column_number + 1,
                            !.position = c.position + 1]
             ELSE LET out == emit(c, RulesClassify(ch), c.position % 65536, 0)
                  IN  [out EXCEPT !.position = c.position + 1,
                                  !.column_number = c.column_number + 1]

\* after the loop: the EOF token, when a slot is left, and the successful return
core_process_eof(c) ==
    LET out == IF c.token_count < c.token_capacity
               THEN emit(c, TOKEN_EOF, c.input_length, 0)
               ELSE c
    IN  [out EXCEPT !.state = "Done", !.last_ret = TRUE]

rules_process_eof(c) ==
    LET out == IF c.token_count < c.token_capacity
               THEN emit(c, TOKEN_EOF, 0, 0)
               ELSE c
    IN  [out EXCEPT !.state = "Done", !.last_ret = TRUE]

\* the tokens rift_tokenizer_get_tokens reports: the first token_count slots
Output(c) == SubSeq(c.tokens, 1, c.token_count)

\* rift_tokenizer_next_token (tokenizer.c): the token at input_position and the
\* increment, or an EOF token with the error flag
rift_tokenizer_next_token(c) ==
    IF c.position >= c.token_count
    THEN [ctx |-> c, token |-> rift_token_create(TOKEN_EOF, 0, TOKEN_FLAG_ERROR).token]
    ELSE [ctx |-> [c EXCEPT !.position = c.position + 1],
          token |-> c.tokens[c.position + 1]]

StreamNext ==
    /\ ctx # NoCtx
    /\ ctx.impl = "core"
    /\ ctx.state # "Processing"
    /\ Len(ctx.streamed) < MaxNextCalls
    /\ LET r == rift_tokenizer_next_token(ctx)
       IN  ctx' = [r.ctx EXCEPT !.streamed = Append(ctx.streamed, r.token),
                                !.last_call = "next_token"]
    /\ UNCHANGED <<tkVars, dfaVars, rxVars, cacheVars, hsVars>>

\* where the loop of the running process call stands
Cursor(c)  == IF c.impl = "core" THEN c.pos ELSE c.position
InLoop(c)  == Cursor(c) < c.input_length

ProcessBegin ==
    /\ ctx # NoCtx
    /\ ctx.state # "Processing"
    /\ ctx' = [process_begin(ctx) EXCEPT
                  !.repeat_of = IF ctx.last_call = "process"
                                THEN [valid |-> TRUE, ret |-> ctx.last_ret,
                                      out |-> Output(ctx)]
                                ELSE NoRepeat,
                  !.streamed = <<>>]
    /\ UNCHANGED <<tkVars, dfaVars, rxVars, cacheVars, hsVars>>

ProcessChar ==
    /\ ctx # NoCtx
    /\ ctx.state = "Processing"
    /\ InLoop(ctx)
    /\ \E realloc_ok \in BOOLEAN, strdup_ok \in BOOLEAN :
          ctx' = IF ctx.impl = "core"
                 THEN core_process_char(ctx, realloc_ok, strdup_ok)
                 ELSE rules_process_char(ctx)
    /\ UNCHANGED <<tkVars, dfaVars, rxVars, cacheVars, hsVars>>

ProcessEof ==
    /\ ctx # NoCtx
    /\ ctx.state = "Processing"
    /\ ~InLoop(ctx)
    /\ ctx' = IF ctx.impl = "core" THEN core_process_eof(ctx)
              ELSE rules_process_eof(ctx)
    /\ UNCHANGED <<tkVars, dfaVars, rxVars, cacheVars, hsVars>>

(***************************************************************************)
(* The DFA (tokenizer_rules.c, 80-151).  A DFAState pointer is an index    *)
(* into the heap dfa; NULL is 0; the transition character '\0' is "".      *)
(***************************************************************************)
NULL == 0
NUL  == ""

\* rift_dfa_create_state: the new object
rift_dfa_create_state(state_id, is_final) ==
    [state_id |-> state_id, is_final |-> is_final, is_start |-> FALSE,
     transition_char |-> NUL, next_state |-> NULL, fail_state |-> NULL,
     token_type |-> TOKEN_UNKNOWN, match_count |-> 0]

\* rift_dfa_add_transition: the single labelled edge of from, overwritten
rift_dfa_add_transition(h, from, to, transition_char) ==
    IF from = NULL \/ to = NULL THEN h
    ELSE [h EXCEPT ![from].transition_char = transition_char,
                   ![from].next_state = to]

\* a variant of NoValidTransition that stays in the current state
NoValidTransition_Stay(current) == current

\* what rift_dfa_process_input does when a character has neither a matching
\* labelled transition nor a fail transition
NoValidTransition(current) == NULL

\* the loop of rift_dfa_process_input from character i (1-based) on: the result
\* and the heap with the match counters the run has incremented
RECURSIVE dfa_loop(_, _, _, _)
dfa_loop(h, current, input, i) ==
    IF i > Len(input) \/ current = NULL
    THEN [result |-> current, heap |-> h]
    ELSE IF h[current].transition_char = input[i] /\ h[current].next_state # NULL
    THEN LET nxt == h[current].next_state
         IN  dfa_loop([h EXCEPT ![nxt].match_count = h[nxt].match_count + 1],
                      nxt, input, i + 1)
    ELSE IF h[current].fail_state # NULL
    THEN dfa_loop(h, h[current].fail_state, input, i + 1)
    ELSE [result |-> NoValidTransition(current), heap |-> h]

\* a variant of rift_dfa_process_input whose result depends on the match counter
\* of the state the run ends in
rift_dfa_process_input_Counting(h, start, input) ==
    LET r == IF start = NULL THEN [result |-> NULL, heap |-> h]
             ELSE dfa_loop(h, start, input, 1)
    IN  IF r.result # NULL /\ h[r.result].match_count > 0
        THEN [result |-> NULL, heap |-> r.heap]
        ELSE r

\* rift_dfa_process_input(start, input, length) with a non-null input
rift_dfa_process_input(h, start, input) ==
    IF start = NULL THEN [result |-> NULL, heap |-> h]
    ELSE dfa_loop(h, start, input, 1)

rift_dfa_is_accepting_state(h, state) == state # NULL /\ h[state].is_final

(***************************************************************************)
(* SpecDfa: automata built through the DFA API, then run on short inputs   *)
(***************************************************************************)
DfaPtrs     == 1..2                 \* the DFAState objects that can be allocated
DfaChars    == {"a", "b"}
MaxDfaInput == 2
MaxDfaRuns  == 2                    \* runs per automaton (match_count is a uint32_t)

DfaInputs == SeqsUpTo(DfaChars, MaxDfaInput)

DfaCreateState ==
    /\ Len(dfa) + 1 \in DfaPtrs
    /\ \E is_final \in BOOLEAN :
          dfa' = Append(dfa, rift_dfa_create_state(Len(dfa), is_final))
    /\ UNCHANGED <<dfa_run, tokVars, tkVars, rxVars, cacheVars, hsVars>>

DfaAddTransition ==
    /\ dfa_run.runs = 0
    /\ \E from \in DOMAIN dfa, to \in DOMAIN dfa, ch \in DfaChars :
          dfa' = rift_dfa_add_transition(dfa, from, to, ch)
    /\ UNCHANGED <<dfa_run, tokVars, tkVars, rxVars, cacheVars, hsVars>>

\* the caller's store into the public fail_state field (no function sets it)
DfaSetFail ==
    /\ dfa_run.runs = 0
    /\ \E from \in DOMAIN dfa, to \in DOMAIN dfa :
          dfa' = [dfa EXCEPT ![from].fail_state = to]
    /\ UNCHANGED <<dfa_run, tokVars, tkVars, rxVars, cacheVars, hsVars>>

DfaProcessInput ==
    /\ dfa_run.runs < MaxDfaRuns
    /\ \E start \in DOMAIN dfa, input \in DfaInputs :
          LET r == rift_dfa_process_input(dfa, start, input)
          IN  /\ dfa' = r.heap
              /\ dfa_run' = [called |-> TRUE, start |-> start, input |-> input,
                             result |-> r.result,
                             runs |-> dfa_run.runs + 1]
    /\ UNCHANGED <<tokVars, tkVars, rxVars, cacheVars, hsVars>>

NextDfa ==
    \/ DfaCreateState
    \/ DfaAddTransition
    \/ DfaSetFail
    \/ DfaProcessInput

SpecDfa == Init /\ [][NextDfa]_vars

(***************************************************************************)
(* The R-syntax regex (tokenizer_rules.c, 206-411).  A RegexComposition    *)
(* owns its DFAState objects: states is its heap, start_state an index.    *)
(* Flags are the set of the TokenFlags bits that are set; | is the union.  *)
(***************************************************************************)
IsQuote(ch) == ch = "\"" \/ ch = "'"

\* the R-syntax markers the compile loop skips: an R before a quote, and a quote
SkipMarker(pattern, i) ==
    \/ (pattern[i] = "R" /\ i + 1 <= Len(pattern) /\ IsQuote(pattern[i + 1]))
    \/ IsQuote(pattern[i])

\* whether the state created for character i of the pattern is final
IsLastChar(pattern, i) == i = Len(pattern)

\* the loop of rift_regex_compile from character i (1-based) on: the heap of
\* states and the state the chain ends in.  fail_state is the number of the
\* chain state whose allocation fails (0: none); the loop breaks there.
RECURSIVE compile_loop(_, _, _, _, _, _)
compile_loop(h, current, state_id, pattern, i, fail_state) ==
    IF i > Len(pattern) THEN [heap |-> h, current |-> current, broke |-> FALSE]
    ELSE IF SkipMarker(pattern, i)
    THEN compile_loop(h, current, state_id, pattern, i + 1, fail_state)
    ELSE IF state_id = fail_state
    THEN [heap |-> h, current |-> current, broke |-> TRUE]
    ELSE LET next_state == Len(h) + 1
             h1 == Append(h, rift_dfa_create_state(state_id, IsLastChar(pattern, i)))
             h2 == rift_dfa_add_transition(h1, current, next_state, pattern[i])
         IN  compile_loop(h2, next_state, state_id + 1, pattern, i + 1, fail_state)

\* the result of a call that returned NULL
NoRegex == [null |-> TRUE]

\* rift_regex_compile(pattern, flags).  fail_at numbers the allocation that
\* fails: 0 none, 1 the RegexComposition, 2 its text, 3 the start state, 3 + k
\* the k-th state of the chain.  alloc_failed is history, not a field.
rift_regex_compile(pattern, flags, fail_at) ==
    IF fail_at \in 1..3 THEN NoRegex
    ELSE LET start == [rift_dfa_create_state(0, FALSE) EXCEPT !.is_start = TRUE]
             built == compile_loop(<<start>>, 1, 1, pattern, 1,
                                   IF fail_at = 0 THEN 0 ELSE fail_at - 3)
             h     == built.heap
             cur   == built.current
         IN  [null |-> FALSE,
              pattern |-> pattern, pattern_length |-> Len(pattern), flags |-> flags,
              is_composed |-> FALSE, start_state |-> 1, current_state |-> 1,
              states |-> IF h[cur].is_final
                         THEN [h EXCEPT ![cur].token_type = TOKEN_REGEX_END]
                         ELSE h,
              from |-> <<>>, alloc_failed |-> built.broke]

\* the text of a composition: "(a)&(b)", "(a)|(b)", "(a)^(b)", "~((a)&(b))"
ComposedText(op, a, b) ==
    LET infix(sym) == <<"(">> \o a \o <<")", sym, "(">> \o b \o <<")">>
    IN  CASE op = "and"  -> infix("&")
          [] op = "or"   -> infix("|")
          [] op = "xor"  -> infix("^")
          [] op = "nand" -> <<"~", "(">> \o infix("&") \o <<")">>

\* a variant of rift_regex_compose that takes the flags of the first operand only
rift_regex_compose_FlagsOfA(op, ia, ib, a, b, fail_at) ==
    LET text == ComposedText(op, a.pattern, b.pattern)
    IN  [null |-> FALSE, pattern |-> text, pattern_length |-> Len(text),
         flags |-> a.flags \cup {TOKEN_FLAG_COMPOSED},
         is_composed |-> TRUE, start_state |-> 1, current_state |-> 1,
         states |-> <<rift_dfa_create_state(0, FALSE)>>,
         from |-> <<op, ia, ib>>, alloc_failed |-> FALSE]

\* rift_regex_compose_and/or/xor/nand(a, b): the four functions differ in the
\* text only.  fail_at numbers the allocation that fails: 0 none, 1 the
\* RegexComposition, 2 its text, 3 the start state (whose result is not tested).
\* from is history (the operator and the operands), not a field.
rift_regex_compose(op, ia, ib, a, b, fail_at) ==
    IF fail_at \in 1..2 THEN NoRegex
    ELSE LET text == ComposedText(op, a.pattern, b.pattern)
             root == IF fail_at = 3 THEN NULL ELSE 1
         IN  [null |-> FALSE,
              pattern |-> text, pattern_length |-> Len(text),
              flags |-> a.flags \cup b.flags \cup {TOKEN_FLAG_COMPOSED},
              is_composed |-> TRUE, start_state |-> root, current_state |-> root,
              states |-> IF fail_at = 3 THEN <<>>
                         ELSE <<rift_dfa_create_state(0, FALSE)>>,
              from |-> <<op, ia, ib>>, alloc_failed |-> fail_at = 3]

\* rift_regex_match(regex, input, length): the result and the regex with the
\* match counters of its states updated
rift_regex_match(regex, input) ==
    LET r == rift_dfa_process_input(regex.states, regex.start_state, input)
    IN  [matched |-> rift_dfa_is_accepting_state(r.heap, r.result),
         final_state |-> r.result,
         regex |-> [regex EXCEPT !.states = r.heap]]

(***************************************************************************)
(* SpecRegex: two compiled patterns, their composition, and one match      *)
(***************************************************************************)
RxChars    == {"a", "R", "\""}
MaxPatLen  == 2
MaxRxInput == 2
RxFlagArgs == {{}}
RxOps      == {"and", "or", "xor", "nand"}

RxTexts  == SeqsUpTo(RxChars, MaxPatLen)
RxCompileFails == 0..(3 + MaxPatLen)    \* which allocation of a compile fails
RxComposeFails == 0..3                  \* which allocation of a compose fails
RxInputs == SeqsUpTo(RxChars, MaxRxInput)

\* the first two objects are compiled from text
RegexCompileFrom(flagArgs) ==
    /\ Len(regs) < 2
    /\ \E pattern \in RxTexts, flags \in flagArgs, fail_at \in RxCompileFails :
          LET r == rift_regex_compile(pattern, flags, fail_at)
          IN  regs' = IF r.null THEN regs ELSE Append(regs, r)
    /\ UNCHANGED <<rx_last, tokVars, tkVars, dfaVars, cacheVars, hsVars>>

RegexCompile == RegexCompileFrom(RxFlagArgs)

\* the third is a composition of the first two
RegexCompose ==
    /\ Len(regs) = 2
    /\ \E op \in RxOps, fail_at \in RxComposeFails :
          LET r == rift_regex_compose(op, 1, 2, regs[1], regs[2], fail_at)
          IN  regs' = IF r.null THEN regs ELSE Append(regs, r)
    /\ UNCHANGED <<rx_last, tokVars, tkVars, dfaVars, cacheVars, hsVars>>

RegexMatch ==
    /\ ~rx_last.called
    /\ \E i \in DOMAIN regs, input \in RxInputs :
          LET r == rift_regex_match(regs[i], input)
          IN  /\ regs' = [regs EXCEPT ![i] = r.regex]
              /\ rx_last' = [called |-> TRUE, regex |-> i, input |-> input,
                             matched |-> r.matched, final_state |-> r.final_state]
    /\ UNCHANGED <<tokVars, tkVars, dfaVars, cacheVars, hsVars>>

NextRegex ==
    \/ RegexCompile
    \/ RegexCompose
    \/ RegexMatch

SpecRegex == Init /\ [][NextRegex]_vars

(***************************************************************************)
(* SpecFind: either an automaton built through the DFA API and run, or     *)
(* one pattern compiled from text and searched with rift_regex_find; a     *)
(* search is repeated on the same input.                                   *)
(***************************************************************************)
MaxFinds == 2

\* the two loops of rift_regex_find from the window [i, j) on (0-based, as in the
\* code): whether a window matched, the window, and the regex with the match
\* counters the attempts have incremented
\* a variant of the loops that reports the end of the window as its length
RECURSIVE find_loop_EndAsLength(_, _, _, _)
find_loop_EndAsLength(regex, input, i, j) ==
    IF i >= Len(input) THEN [found |-> FALSE, regex |-> regex]
    ELSE IF j > Len(input) THEN find_loop_EndAsLength(regex, input, i + 1, i + 1)
    ELSE LET r == rift_regex_match(regex, SubSeq(input, i + 1, j))
         IN  IF r.matched
             THEN [found |-> TRUE, match_start |-> i, match_length |-> j,
                   regex |-> r.regex]
             ELSE find_loop_EndAsLength(r.regex, input, i, j + 1)

RECURSIVE find_loop(_, _, _, _)
find_loop(regex, input, i, j) ==
    IF i >= Len(input) THEN [found |-> FALSE, regex |-> regex]
    ELSE IF j > Len(input) THEN find_loop(regex, input, i + 1, i + 1)
    ELSE LET r == rift_regex_match(regex, SubSeq(input, i + 1, j))
         IN  IF r.matched
             THEN [found |-> TRUE, match_start |-> i, match_length |-> j - i,
                   regex |-> r.regex]
             ELSE find_loop(r.regex, input, i, j + 1)

\* rift_regex_find(regex, input, length, &match_start, &match_length) with
\* non-null arguments
rift_regex_find(regex, input) == find_loop(regex, input, 0, 0)

\* the caller's match_start and match_length keep their values when nothing is
\* found; they start at 0
RegexFind ==
    /\ \E i \in DOMAIN regs, input \in RxInputs :
          /\ rx_last.called => (/\ rx_last.finds < MaxFinds
                                /\ i = rx_last.regex
                                /\ input = rx_last.input)
          /\ LET r == rift_regex_find(regs[i], input)
                 before == IF rx_last.called THEN rx_last
                           ELSE [match_start |-> 0, match_length |-> 0, finds |-> 0]
             IN  /\ regs' = [regs EXCEPT ![i] = r.regex]
                 /\ rx_last' = [called |-> TRUE, regex |-> i, input |-> input,
                                found |-> r.found,
                                match_start |-> IF r.found THEN r.match_start
                                                ELSE before.match_start,
                                match_length |-> IF r.found THEN r.match_length
                                                 ELSE before.match_length,
                                finds |-> before.finds + 1]
    /\ UNCHANGED <<tokVars, tkVars, dfaVars, cacheVars, hsVars>>

NextFind ==
    \/ regs = <<>> /\ rx_last.called = FALSE /\ NextDfa
    \/ dfa = <<>> /\ regs = <<>> /\ RegexCompile
    \/ dfa = <<>> /\ RegexFind

SpecFind == Init /\ [][NextFind]_vars

(***************************************************************************)
(* Flag strings (tokenizer_rules.c, 158-188)                               *)
(***************************************************************************)
R_FLAGS_MAP ==
    <<[flag_char |-> "g", flag_value |-> {TOKEN_FLAG_GLOBAL}],
      [flag_char |-> "m", flag_value |-> {TOKEN_FLAG_MULTILINE}],
      [flag_char |-> "i", flag_value |-> {TOKEN_FLAG_IGNORECASE}],
      [flag_char |-> "t", flag_value |-> {TOKEN_FLAG_TOPDOWN}],
      [flag_char |-> "b", flag_value |-> {TOKEN_FLAG_BOTTOMUP}],
      [flag_char |-> NUL, flag_value |-> {}]>>

\* the inner loop of rift_parse_r_flags from entry i on: the bits of the first
\* entry for ch, none when the scan reaches the terminating entry
RECURSIVE flags_map_scan(_, _)
flags_map_scan(ch, i) ==
    IF R_FLAGS_MAP[i].flag_char = NUL THEN {}
    ELSE IF ch = R_FLAGS_MAP[i].flag_char THEN R_FLAGS_MAP[i].flag_value
    ELSE flags_map_scan(ch, i + 1)

\* the outer loop from character p (1-based) on
RECURSIVE flags_loop(_, _)
flags_loop(flag_string, p) ==
    IF p > Len(flag_string) THEN {}
    ELSE flags_map_scan(flag_string[p], 1) \cup flags_loop(flag_string, p + 1)

\* a variant of rift_parse_r_flags that stops at the first character without an
\* entry in R_FLAGS_MAP
RECURSIVE flags_loop_StopAtUnknown(_, _)
flags_loop_StopAtUnknown(flag_string, p) ==
    IF p > Len(flag_string) THEN {}
    ELSE IF flags_map_scan(flag_string[p], 1) = {} THEN {}
    ELSE flags_map_scan(flag_string[p], 1)
             \cup flags_loop_StopAtUnknown(flag_string, p + 1)

rift_parse_r_flags_StopAtUnknown(flag_string) ==
    flags_loop_StopAtUnknown(flag_string, 1)

\* rift_parse_r_flags(flag_string) on a non-null string
rift_parse_r_flags(flag_string) == flags_loop(flag_string, 1)

(***************************************************************************)
(* SpecCompose: two patterns compiled with flags, and their composition    *)
(***************************************************************************)
RxFlagArgsWide == {{}, {TOKEN_FLAG_GLOBAL}, {TOKEN_FLAG_MULTILINE, TOKEN_FLAG_BOTTOMUP}}

RegexCompileWide == RegexCompileFrom(RxFlagArgsWide)

NextCompose ==
    \/ RegexCompileWide
    \/ RegexCompose

SpecCompose == Init /\ [][NextCompose]_vars

(***************************************************************************)
(* The compiled-pattern cache (tokenizer_utilities.c, 19-235).  A          *)
(* CompiledPattern pointer is an index into heap; the record of a freed    *)
(* object stays in heap with frees > 0.  Threads call compile_r_pattern    *)
(* and release_compiled_pattern; every section under pattern_cache_mutex   *)
(* is one step, every access outside it is a step of its own.              *)
(***************************************************************************)
\* Bounds of the cache model
MAX_COMPILED_PATTERNS == 2      \* the capacity of pattern_cache (no header in src/ sets it)
MAX_DELIMITER_LENGTH  == 16     \* the size of the delimiter buffer (no header in src/ sets it)
MaxAllocs == 3                  \* CompiledPattern objects allocated in one run
MaxHeld   == 2                  \* references one thread holds at a time

\* the pattern texts the threads compile: a plain text and an R-pattern literal
PlainText == <<"a">>
RText     == <<"R", "\"", "(", "a", ")", "\"", "g">>
CacheTexts == {PlainText, RText}

\* the value the caller's flags variable holds before the call
FlagArgs == {{}, {"DFA_FLAG_BOTTOM_UP"}}

\* strchr and strrchr: the index of the first occurrence at or after from, of the
\* last occurrence; 0 when there is none
IndexFrom(s, ch, from) ==
    LET hits == {i \in from..Len(s) : s[i] = ch}
    IN  IF hits = {} THEN 0 ELSE CHOOSE i \in hits : \A j \in hits : i <= j

LastIndex(s, ch) ==
    LET hits == {i \in 1..Len(s) : s[i] = ch}
    IN  IF hits = {} THEN 0 ELSE CHOOSE i \in hits : \A j \in hits : i >= j

\* parse_r_pattern_flags
FlagOf(ch) ==
    CASE ch = "g" -> {"DFA_FLAG_GLOBAL"}
      [] ch = "m" -> {"DFA_FLAG_MULTILINE"}
      [] ch = "i" -> {"DFA_FLAG_INSENSITIVE"}
      [] ch = "t" -> {"DFA_FLAG_TOP_DOWN"}
      [] ch = "b" -> {"DFA_FLAG_BOTTOM_UP"}
      [] OTHER    -> {}

parse_r_pattern_flags(flag_str) == UNION {FlagOf(flag_str[i]) : i \in DOMAIN flag_str}

\* extract_r_pattern_delimiter: the delimiter's length, or -1
extract_r_pattern_delimiter(pattern_str) ==
    IF ~(Len(pattern_str) >= 2 /\ pattern_str[1] = "R" /\ IsQuote(pattern_str[2]))
    THEN -1
    ELSE LET content_start == IndexFrom(pattern_str, "(", 3)
         IN  IF content_start = 0 THEN -1
             ELSE IF content_start - 3 >= MAX_DELIMITER_LENGTH THEN -1
             ELSE content_start - 3

\* the kind compile_r_pattern stores, and the value it leaves in *flags
PatternKind(pattern_str) ==
    IF extract_r_pattern_delimiter(pattern_str) < 0 THEN "TOKEN_IDENTIFIER"
    ELSE "TOKEN_R_PATTERN"

PatternFlags(pattern_str, flags_in) ==
    IF extract_r_pattern_delimiter(pattern_str) < 0 THEN {}
    ELSE LET close == LastIndex(pattern_str, ")")
             quote == IF close = 0 THEN 0 ELSE IndexFrom(pattern_str, "\"", close)
         IN  IF quote = 0 THEN flags_in
             ELSE parse_r_pattern_flags(SubSeq(pattern_str, quote + 1, Len(pattern_str)))

\* the object compile_r_pattern allocates and fills on a cache miss
NewPattern(pattern_str, flags_in) ==
    [text |-> pattern_str, data_null |-> FALSE,
     pattern_size |-> Len(pattern_str) + 1,
     token_type |-> PatternKind(pattern_str),
     flags |-> PatternFlags(pattern_str, flags_in),
     ref_count |-> 1, last_match_valid |-> FALSE,
     frees |-> 0,               \* history: the number of free(pattern) calls
     revived |-> FALSE]         \* history: a lookup incremented it at a count <= 0

\* the cache scan of compile_r_pattern: the first entry with pattern data equal
\* to pattern_str, or 0
CacheLookup(pattern_str) ==
    LET hits == {i \in DOMAIN pattern_cache :
                    /\ ~heap[pattern_cache[i]].data_null
                    /\ heap[pattern_cache[i]].text = pattern_str}
    IN  IF hits = {} THEN 0 ELSE CHOOSE i \in hits : \A j \in hits : i <= j

\* a variant of the test below that also takes the last but one reference as the last
LastReference_Early(ref_count) == ref_count <= 2

\* the test of release_compiled_pattern on the count atomic_fetch_sub returned
LastReference(ref_count) == ref_count <= 1

\* the cache with the first slot holding p removed and the rest shifted down
CacheRemove(cache, p) ==
    LET hits == {i \in DOMAIN cache : cache[i] = p}
    IN  IF hits = {} THEN cache
        ELSE LET i == CHOOSE k \in hits : \A j \in hits : k <= j
             IN  SubSeq(cache, 1, i - 1) \o SubSeq(cache, i + 1, Len(cache))

\* s with x inserted, s kept sorted; s with one occurrence of x removed
RECURSIVE SortedInsert(_, _)
SortedInsert(s, x) ==
    IF s = <<>> THEN <<x>>
    ELSE IF x <= Head(s) THEN <<x>> \o s
    ELSE <<Head(s)>> \o SortedInsert(Tail(s), x)

RemoveOne(s, x) == CacheRemove(s, x)

\* compile_r_pattern, lines 133-146: the lookup under the mutex.  A hit
\* increments the count and returns the cached object; a miss goes on to allocate.
CompileLookupOf(t, texts) ==
    /\ pc[t] = "idle"
    /\ mutex = 0
    /\ Len(held[t]) < MaxHeld
    /\ \E pattern_str \in texts, flags_in \in FlagArgs :
          LET i == CacheLookup(pattern_str)
          IN  IF i # 0
              THEN LET p == pattern_cache[i]
                   IN  /\ heap' = [heap EXCEPT ![p].ref_count = heap[p].ref_count + 1,
                                               ![p].revived = heap[p].revived
                                                              \/ heap[p].ref_count <= 0]
                       /\ held' = [held EXCEPT ![t] = SortedInsert(held[t], p)]
                       /\ loc' = [loc EXCEPT ![t] = [op |-> "compile", ret |-> p,
                                                     text |-> pattern_str, hit |-> TRUE,
                                                     flags_out |-> heap[p].flags]]
                       /\ pc' = pc
              ELSE /\ Len(heap) < MaxAllocs
                   /\ loc' = [loc EXCEPT ![t] = [op |-> "compile", text |-> pattern_str,
                                                 flags_in |-> flags_in]]
                   /\ pc' = [pc EXCEPT ![t] = "c_insert"]
                   /\ UNCHANGED <<heap, held>>
    /\ UNCHANGED <<pattern_cache, mutex, hist>>
    /\ UNCHANGED <<tokVars, tkVars, dfaVars, rxVars, hsVars>>

CompileLookup(t) == CompileLookupOf(t, CacheTexts)

\* compile_r_pattern, lines 148-199: the allocation (it succeeds), then the insert
\* under the mutex when a slot is free, and the return of the new object
CompileInsert(t) ==
    /\ pc[t] = "c_insert"
    /\ mutex = 0
    /\ LET p == Len(heap) + 1
       IN  /\ heap' = Append(heap, NewPattern(loc[t].text, loc[t].flags_in))
           /\ pattern_cache' = IF Len(pattern_cache) < MAX_COMPILED_PATTERNS
                               THEN Append(pattern_cache, p)
                               ELSE pattern_cache
           /\ held' = [held EXCEPT ![t] = SortedInsert(held[t], p)]
           /\ loc' = [loc EXCEPT ![t] = [op |-> "compile", ret |-> p,
                                         text |-> loc[t].text, hit |-> FALSE,
                                         flags_out |-> PatternFlags(loc[t].text,
                                                                    loc[t].flags_in)]]
    /\ pc' = [pc EXCEPT ![t] = "idle"]
    /\ UNCHANGED <<mutex, hist>>
    /\ UNCHANGED <<tokVars, tkVars, dfaVars, rxVars, hsVars>>

\* release_compiled_pattern, line 210: the atomic decrement, by a thread that
\* gives up one of its references.  On an object that was freed already the
\* access is undefined: the call may crash the thread or read the stale count.
ReleaseDecrement(t) ==
    /\ pc[t] = "idle"
    /\ \E p \in {held[t][i] : i \in DOMAIN held[t]}, crash \in BOOLEAN :
          /\ held' = [held EXCEPT ![t] = RemoveOne(held[t], p)]
          /\ IF heap[p].frees > 0 /\ crash
             THEN /\ pc' = [pc EXCEPT ![t] = "crashed"]
                  /\ loc' = [loc EXCEPT ![t] = Idle]
                  /\ hist' = [hist EXCEPT !.uaf = TRUE]
                  /\ heap' = heap
             ELSE /\ heap' = [heap EXCEPT ![p].ref_count = heap[p].ref_count - 1]
                  /\ hist' = [hist EXCEPT !.uaf = hist.uaf \/ heap[p].frees > 0]
                  /\ IF LastReference(heap[p].ref_count)
                     THEN /\ pc' = [pc EXCEPT ![t] = "r_free_data"]
                          /\ loc' = [loc EXCEPT ![t] = [op |-> "release", p |-> p,
                                                        last |-> TRUE]]
                     ELSE /\ pc' = pc
                          /\ loc' = [loc EXCEPT ![t] = [op |-> "release", p |-> p,
                                                        last |-> FALSE]]
    /\ UNCHANGED <<pattern_cache, mutex>>
    /\ UNCHANGED <<tokVars, tkVars, dfaVars, rxVars, hsVars>>

\* lines 214-217: free(pattern->pattern_data), outside the mutex
ReleaseFreeData(t) ==
    /\ pc[t] = "r_free_data"
    /\ heap' = [heap EXCEPT ![loc[t].p].data_null = TRUE]
    /\ pc' = [pc EXCEPT ![t] = "r_remove"]
    /\ UNCHANGED <<pattern_cache, mutex, loc, held, hist>>
    /\ UNCHANGED <<tokVars, tkVars, dfaVars, rxVars, hsVars>>

\* lines 220-231: the removal from the cache, under the mutex
ReleaseRemove(t) ==
    /\ pc[t] = "r_remove"
    /\ mutex = 0
    /\ pattern_cache' = CacheRemove(pattern_cache, loc[t].p)
    /\ pc' = [pc EXCEPT ![t] = "r_free"]
    /\ UNCHANGED <<heap, mutex, loc, held, hist>>
    /\ UNCHANGED <<tokVars, tkVars, dfaVars, rxVars, hsVars>>

\* line 233: free(pattern)
ReleaseFree(t) ==
    /\ pc[t] = "r_free"
    /\ heap' = [heap EXCEPT ![loc[t].p].frees = heap[loc[t].p].frees + 1]
    /\ pc' = [pc EXCEPT ![t] = "idle"]
    /\ UNCHANGED <<pattern_cache, mutex, loc, held, hist>>
    /\ UNCHANGED <<tokVars, tkVars, dfaVars, rxVars, hsVars>>

(***************************************************************************)
(* SpecCache: the threads run concurrently.  SpecCacheSeq: one thread.     *)
(***************************************************************************)
NextCache ==
    \E t \in Threads :
        \/ CompileLookup(t)
        \/ CompileInsert(t)
        \/ ReleaseDecrement(t)
        \/ ReleaseFreeData(t)
        \/ ReleaseRemove(t)
        \/ ReleaseFree(t)

SpecCache == Init /\ [][NextCache]_vars

NextCacheSeq ==
    \/ CompileLookup(1)
    \/ CompileInsert(1)
    \/ ReleaseDecrement(1)
    \/ ReleaseFreeData(1)
    \/ ReleaseRemove(1)
    \/ ReleaseFree(1)

SpecCacheSeq == Init /\ [][NextCacheSeq]_vars

(***************************************************************************)
(* SpecRelease: the threads of RelThreads first compile one and the same   *)
(* text, one call after the other, so that each holds one reference to the *)
(* one cached Pattern; then they call release_compiled_pattern             *)
(* concurrently and nothing else runs.                                     *)
(***************************************************************************)
RelThreads == 1..4

InitRelease ==
    /\ TokInit /\ TkInit /\ DfaInit /\ RxInit /\ HsInit
    /\ heap = <<>>
    /\ pattern_cache = <<>>
    /\ mutex = 0
    /\ pc = [t \in RelThreads |-> "idle"]
    /\ loc = [t \in RelThreads |-> Idle]
    /\ held = [t \in RelThreads |-> <<>>]
    /\ hist = [uaf |-> FALSE]

\* one compile_r_pattern call of the set-up, of the text the cache already holds
RelCompile(t) ==
    /\ \A u \in RelThreads : loc[u].op # "release"
    /\ held[t] = <<>>
    /\ \A u \in RelThreads \ {t} : pc[u] = "idle"
    /\ CompileLookup(t) \/ CompileInsert(t)
    /\ heap # <<>> => loc'[t].text = heap[1].text

\* the steps of the concurrent release_compiled_pattern calls
RelRelease(t) ==
    /\ \A u \in RelThreads : pc[u] # "c_insert"
    /\ \/ ReleaseDecrement(t)
       \/ ReleaseFreeData(t)
       \/ ReleaseRemove(t)
       \/ ReleaseFree(t)

NextRelease == \E t \in RelThreads : RelCompile(t) \/ RelRelease(t)

SpecRelease == InitRelease /\ [][NextRelease]_vars

(***************************************************************************)
(* SpecLines: one tokenizer session on inputs with line ends               *)
(***************************************************************************)
LineAlphabet == {"a", " ", "\n"}
LineInputs   == SeqsUpTo(LineAlphabet, MaxInputLen)

NextLines ==
    \/ Create
    \/ SetInput /\ ctx'.input_buffer \in LineInputs
    \/ ProcessBegin
    \/ ProcessChar
    \/ ProcessEof

SpecLines == Init /\ [][NextLines]_vars

(***************************************************************************)
(* cleanup_tokenizer_utilities (tokenizer_utilities.c, 499-515).  The      *)
(* thread holds pattern_cache_mutex (mutex = t) over the whole loop.  The   *)
(* mutex is a default mutex (PTHREAD_MUTEX_INITIALIZER): locking it again   *)
(* in the thread that holds it is undefined, it blocks for ever or goes on. *)
(* The performance statistics are not part of the state.                   *)
(***************************************************************************)
RelockOutcomes == {"blocks", "proceeds"}

\* line 501: pthread_mutex_lock, and the start of the loop
CleanupLock(t) ==
    /\ pc[t] = "idle"
    /\ mutex = 0
    /\ mutex' = t
    /\ pc' = [pc EXCEPT ![t] = "cl_loop"]
    /\ loc' = [loc EXCEPT ![t] = [op |-> "cleanup", i |-> 0]]
    /\ UNCHANGED <<heap, pattern_cache, held, hist>>
    /\ UNCHANGED <<tokVars, tkVars, dfaVars, rxVars, hsVars>>

\* lines 502-507: one iteration, with the call of release_compiled_pattern on
\* slot i (0-based).  A release of the last reference frees the pattern data and
\* locks the mutex again (line 220); when that goes on, it removes the entry,
\* unlocks the mutex and frees the Pattern, and the loop stores NULL in slot i.
CleanupRelease(t) ==
    /\ pc[t] = "cl_loop"
    /\ loc[t].i < Len(pattern_cache)
    /\ LET i == loc[t].i + 1
           p == pattern_cache[i]
       IN  IF p = NULL
           THEN /\ loc' = [loc EXCEPT ![t].i = i]
                /\ UNCHANGED <<heap, pattern_cache, mutex, pc>>
           ELSE IF ~LastReference(heap[p].ref_count)
           THEN /\ heap' = [heap EXCEPT ![p].ref_count = heap[p].ref_count - 1]
                /\ pattern_cache' = [pattern_cache EXCEPT ![i] = NULL]
                /\ loc' = [loc EXCEPT ![t].i = i]
                /\ UNCHANGED <<mutex, pc>>
           ELSE \E outcome \in RelockOutcomes :
                   IF outcome = "blocks"
                   THEN /\ heap' = [heap EXCEPT ![p].ref_count = heap[p].ref_count - 1,
                                                ![p].data_null = TRUE]
                        /\ pc' = [pc EXCEPT ![t] = "cl_blocked"]
                        /\ UNCHANGED <<pattern_cache, mutex, loc>>
                   ELSE LET removed == CacheRemove(pattern_cache, p)
                        IN  /\ heap' = [heap EXCEPT
                                           ![p].ref_count = heap[p].ref_count - 1,
                                           ![p].data_null = TRUE,
                                           ![p].frees = heap[p].frees + 1]
                            /\ pattern_cache' = IF i <= Len(removed)
                                                THEN [removed EXCEPT ![i] = NULL]
                                                ELSE removed
                            /\ mutex' = 0
                            /\ loc' = [loc EXCEPT ![t].i = i]
                            /\ pc' = pc
    /\ UNCHANGED <<held, hist>>
    /\ UNCHANGED <<tokVars, tkVars, dfaVars, rxVars, hsVars>>

\* lines 508-509: pattern_cache_count = 0, pthread_mutex_unlock, and the return
CleanupUnlock(t) ==
    /\ pc[t] = "cl_loop"
    /\ loc[t].i >= Len(pattern_cache)
    /\ pattern_cache' = <<>>
    /\ mutex' = 0
    /\ pc' = [pc EXCEPT ![t] = "idle"]
    /\ loc' = [loc EXCEPT ![t] = [op |-> "cleanup", returned |-> TRUE]]
    /\ UNCHANGED <<heap, held, hist>>
    /\ UNCHANGED <<tokVars, tkVars, dfaVars, rxVars, hsVars>>

(***************************************************************************)
(* SpecCleanup: one thread compiles, releases and cleans up                *)
(***************************************************************************)
NextCleanup ==
    \/ NextCacheSeq
    \/ CleanupLock(1)
    \/ CleanupRelease(1)
    \/ CleanupUnlock(1)

SpecCleanup == Init /\ [][NextCleanup]_vars

(***************************************************************************)
(* SpecLiteral: one thread compiles and releases R-pattern literals in     *)
(* both quote styles                                                       *)
(***************************************************************************)
LiteralQuotes     == {"\"", "'"}
LiteralDelimiters == {<<>>, <<"d">>}
LiteralFlags      == {<<"g">>, <<"i", "b">>}

\* the literal R<quote><delimiter>(a)<delimiter><quote><flags>
Literal(quote, delimiter, flag_str) ==
    <<"R", quote>> \o delimiter \o <<"(", "a", ")">> \o delimiter \o <<quote>> \o flag_str

LiteralTexts ==
    {Literal(q, d, f) : q \in LiteralQuotes, d \in LiteralDelimiters, f \in LiteralFlags}

NextLiteral ==
    \/ CompileLookupOf(1, LiteralTexts)
    \/ CompileInsert(1)
    \/ ReleaseDecrement(1)
    \/ ReleaseFreeData(1)
    \/ ReleaseRemove(1)
    \/ ReleaseFree(1)

SpecLiteral == Init /\ [][NextLiteral]_vars

(***************************************************************************)
(* SpecCacheFull: the cache is full: thread 2 has compiled                 *)
(* MAX_COMPILED_PATTERNS other texts and holds them.  Thread 1 compiles    *)
(* and releases the texts of CacheTexts; thread 2 releases what it holds.  *)
(***************************************************************************)
\* the i-th of the texts thread 2 has compiled
FillerText(i) == <<"f", ToString(i)>>

InitFull ==
    /\ TokInit /\ TkInit /\ DfaInit /\ RxInit /\ HsInit
    /\ heap = [i \in 1..MAX_COMPILED_PATTERNS |-> NewPattern(FillerText(i), {})]
    /\ pattern_cache = [i \in 1..MAX_COMPILED_PATTERNS |-> i]
    /\ mutex = 0
    /\ pc = [t \in Threads |-> "idle"]
    /\ loc = [t \in Threads |-> Idle]
    /\ held = [t \in Threads |-> IF t = 2 THEN [i \in 1..MAX_COMPILED_PATTERNS |-> i]
                                  ELSE <<>>]
    /\ hist = [uaf |-> FALSE]

NextCacheFull ==
    \/ NextCacheSeq
    \/ ReleaseDecrement(2)
    \/ ReleaseFreeData(2)
    \/ ReleaseRemove(2)
    \/ ReleaseFree(2)

SpecCacheFull == InitFull /\ [][NextCacheFull]_vars

(***************************************************************************)
(* SpecFlags: a flag string is parsed by both parsers, and a pattern is    *)
(* compiled with the flags rift_parse_r_flags returned, as the R_PATTERN   *)
(* macro does                                                              *)
(***************************************************************************)
MaxFlagLen == 3
FlagChars == {"g", "m", "i", "t", "b", "x"}
FlagStrings == SeqsUpTo(FlagChars, MaxFlagLen)

ParseFlags ==
    /\ regs = <<>>
    /\ \E flag_string \in FlagStrings :
          rx_last' = [called |-> TRUE, flag_string |-> flag_string,
                      flags |-> rift_parse_r_flags(flag_string),
                      dfa_flags |-> parse_r_pattern_flags(flag_string)]
    /\ UNCHANGED <<regs, tokVars, tkVars, dfaVars, cacheVars, hsVars>>

\* from records the flag string the flags came from (history)
RegexCompileParsed ==
    /\ rx_last.called
    /\ regs = <<>>
    /\ \E pattern \in RxTexts, fail_at \in RxCompileFails :
          LET r == rift_regex_compile(pattern, rx_last.flags, fail_at)
          IN  regs' = IF r.null THEN regs
                      ELSE <<[r EXCEPT !.from = <<"flags", rx_last.flag_string>>]>>
    /\ UNCHANGED <<rx_last, tokVars, tkVars, dfaVars, cacheVars, hsVars>>

NextFlags ==
    \/ ParseFlags
    \/ RegexCompileParsed

SpecFlags == Init /\ [][NextFlags]_vars

(***************************************************************************)
(* The top-down/bottom-up handshake (tokenizer_utilities.c, 330-339).  The *)
(* two functions keep no state; handshake is history: the modes signalled  *)
(* so far, and for each thread its last call, a wait with whether its mode *)
(* had been signalled when it returned.                                    *)
(***************************************************************************)
\* signal_context_switch(is_top_down): the body is empty
signal_context_switch(t, is_top_down) ==
    [handshake EXCEPT !.signals = handshake.signals \cup {is_top_down},
                      !.last[t] = [op |-> "signal", is_top_down |-> is_top_down]]

\* wait_for_context(need_top_down): returns true at once
wait_for_context(t, need_top_down) ==
    [handshake EXCEPT !.last[t] = [op |-> "wait", need_top_down |-> need_top_down,
                                   ret |-> TRUE,
                                   signalled |-> need_top_down \in handshake.signals]]

SignalContextSwitch(t) ==
    /\ \E is_top_down \in BOOLEAN :
          handshake' = signal_context_switch(t, is_top_down)
    /\ UNCHANGED <<tokVars, tkVars, dfaVars, rxVars, cacheVars>>

WaitForContext(t) ==
    /\ \E need_top_down \in BOOLEAN :
          handshake' = wait_for_context(t, need_top_down)
    /\ UNCHANGED <<tokVars, tkVars, dfaVars, rxVars, cacheVars>>

NextHandshake == \E t \in HsThreads : SignalContextSwitch(t) \/ WaitForContext(t)

SpecHandshake == Init /\ [][NextHandshake]_vars

(***************************************************************************)
(* Spec: one tokenizer session                                             *)
(***************************************************************************)
Next ==
    \/ Create
    \/ SetInput
    \/ SetInputFile
    \/ ProcessBegin
    \/ ProcessChar
    \/ ProcessEof

Spec == Init /\ [][Next]_vars

(***************************************************************************)
(* SpecSession: one tokenizer session on inputs over a two-character       *)
(* alphabet, with rift_tokenizer_reset                                     *)
(***************************************************************************)
SessionAlphabet == {"a", " "}
SessionInputs == SeqsUpTo(SessionAlphabet, MaxInputLen)

NextSession ==
    \/ Create
    \/ SetInput /\ ctx'.input_buffer \in SessionInputs
    \/ ProcessBegin
    \/ ProcessChar
    \/ ProcessEof
    \/ Reset

SpecSession == Init /\ [][NextSession]_vars

(***************************************************************************)
(* SpecStream: one tokenizer session read through next_token               *)
(***************************************************************************)
NextStream ==
    \/ Create
    \/ SetInput /\ ctx'.input_buffer \in SessionInputs
    \/ ProcessBegin
    \/ ProcessChar
    \/ ProcessEof
    \/ StreamNext

SpecStream == Init /\ [][NextStream]_vars

(***************************************************************************)
(* SpecToken: rift_token_create on arguments drawn from the field ranges   *)
(* and from just outside them                                              *)
(***************************************************************************)
KindArgs   == {0, 1, 9, 17, 18, 200, 254, 255, 256}
OffsetArgs == {0, 1, 255, 256, 4096, 4097, 65535, 65536, 65537}
AuxArgs    == {0, 1, 128, 255}

TokenCreate ==
    /\ \E type \in KindArgs, mem_ptr \in OffsetArgs, value \in AuxArgs :
          LET r == rift_token_create(type, mem_ptr, value)
          IN  tk' = [called |-> TRUE, type |-> type, mem_ptr |-> mem_ptr,
                     value |-> value, token |-> r.token, asserts |-> r.asserts,
                     checked |-> FALSE, valid |-> FALSE,
                     validated |-> FALSE, policy |-> "0"]
    /\ UNCHANGED <<tokVars, dfaVars, rxVars, cacheVars, hsVars>>

\* rift_token_is_valid on the token last created
TokenIsValid ==
    /\ tk.called
    /\ tk' = [tk EXCEPT !.checked = TRUE, !.valid = rift_token_is_valid(tk.token)]
    /\ UNCHANGED <<tokVars, dfaVars, rxVars, cacheVars, hsVars>>

\* validate_token_triplet on the token last created
TokenValidate ==
    /\ tk.called
    /\ tk' = [tk EXCEPT !.validated = TRUE, !.policy = validate_token_triplet(tk.token)]
    /\ UNCHANGED <<tokVars, dfaVars, rxVars, cacheVars, hsVars>>

NextToken ==
    \/ TokenCreate
    \/ TokenIsValid
    \/ TokenValidate

SpecToken == Init /\ [][NextToken]_vars

(***************************************************************************)
(* Claims about the token codec                                            *)
(***************************************************************************)
\* C5: for every kind in 0..255, offset in 0..65535 and aux in 0..255 the token
\* built by rift_token_create has type = kind, mem_ptr = offset, value = aux, and
\* none of the three assertions inside rift_token_create fails.
C5_RoundTrip ==
    (tk.called /\ tk.type \in 0..255 /\ tk.mem_ptr \in 0..65535 /\ tk.value \in 0..255)
        => /\ tk.token = [type |-> tk.type, mem_ptr |-> tk.mem_ptr, value |-> tk.value]
           /\ tk.asserts

\* a token built from the largest value of every field
C5_Witness ==
    /\ tk.called
    /\ tk.type = 255 /\ tk.mem_ptr = 65535 /\ tk.value = 255
    /\ tk.token.mem_ptr = 65535

(***************************************************************************)
(* Claims about rift_dfa_process_input                                     *)
(***************************************************************************)
\* the state the automaton moves to from state q on character ch: the labelled
\* transition, else the fail transition, else none (NULL)
DfaStep(q, ch) ==
    IF dfa[q].transition_char = ch /\ dfa[q].next_state # NULL THEN dfa[q].next_state
    ELSE dfa[q].fail_state

\* path is a walk of the automaton from start over the first Len(path)-1
\* characters of input
IsWalk(path, start, input) ==
    /\ path[1] = start
    /\ \A i \in 1..(Len(path) - 1) : path[i + 1] = DfaStep(path[i], input[i])

Walks(start, input) ==
    {path \in UNION {[1..n -> DOMAIN dfa] : n \in 1..(Len(input) + 1)} :
        IsWalk(path, start, input)}

TruthTable(op, a, b) ==
    CASE op = "and"  -> a /\ b
      [] op = "or"   -> a \/ b
      [] op = "xor"  -> a # b
      [] op = "nand" -> ~(a /\ b)

\* C1: matching a composed pattern follows the truth table of its constituents'
\* match results on the same subject: AND iff both match, OR iff at least one,
\* XOR iff exactly one, NAND iff not both.
C1_TruthTable ==
    (/\ rx_last.called
     /\ regs[rx_last.regex].is_composed
     /\ \A i \in DOMAIN regs : ~regs[i].alloc_failed) =>
        LET c == regs[rx_last.regex]
            a == rift_regex_match(regs[c.from[2]], rx_last.input).matched
            b == rift_regex_match(regs[c.from[3]], rx_last.input).matched
        IN  rx_last.matched = TruthTable(c.from[1], a, b)

\* the transitions of a chain, in order from its start state
RECURSIVE ChainLabels(_, _)
ChainLabels(h, q) ==
    IF h[q].next_state = NULL THEN <<>>
    ELSE <<h[q].transition_char>> \o ChainLabels(h, h[q].next_state)

\* C9: for every non-empty pattern text rift_regex_compile builds a chain with one
\* state and one labelled transition per character of the text, labelled with
\* that character in text order, and the last state of the chain, and only it, is
\* accepting.
C9_ChainPerCharacter ==
    \A i \in DOMAIN regs :
        (~regs[i].is_composed /\ regs[i].pattern # <<>> /\ ~regs[i].alloc_failed) =>
            LET h == regs[i].states
            IN  /\ Len(h) = Len(regs[i].pattern) + 1
                /\ ChainLabels(h, regs[i].start_state) = regs[i].pattern
                /\ \A q \in DOMAIN h : h[q].is_final <=> q = Len(h)

(***************************************************************************)
(* Claims about rift_tokenizer_process                                     *)
(***************************************************************************)
HasCtx == ctx.impl # "none"

\* the last operation on the session was a process call that returned success
ProcessSucceeded == HasCtx /\ ctx.state = "Done" /\ ctx.last_call = "process" /\ ctx.last_ret

Kinds(toks) == [i \in 1..Len(toks) |-> toks[i].type]

\* the kinds scenario A expects; the enumeration of the two tokenizers has no
\* DELIMITER, TOKEN_PUNCTUATION is its kind for ';'
ScenarioAKinds ==
    <<TOKEN_IDENTIFIER, TOKEN_WHITESPACE, TOKEN_IDENTIFIER, TOKEN_WHITESPACE,
      TOKEN_OPERATOR, TOKEN_WHITESPACE, TOKEN_LITERAL_NUMBER, TOKEN_PUNCTUATION,
      TOKEN_EOF>>

\* C6: process emits one token per maximal run of characters of one class, never
\* two tokens of the same kind for two adjacent characters, and tokenizing
\* "let x = 42;" yields IDENTIFIER, WHITESPACE, IDENTIFIER, WHITESPACE, OPERATOR,
\* WHITESPACE, LITERAL_NUMBER, DELIMITER, EOF.
C6_GreedyTokens ==
    ProcessSucceeded =>
        LET out == Output(ctx)
        IN  /\ \A i \in 1..(Len(out) - 1) :
                  ~(out[i].type = out[i + 1].type /\ out[i + 1].mem_ptr = out[i].mem_ptr + 1)
            /\ (ctx.input_buffer = LetX42 /\ ctx.token_capacity > Len(LetX42))
                  => Kinds(out) = ScenarioAKinds

\* C7: after any process call the offsets of the tokens of the output, the EOF
\* token included, are strictly increasing.
C7_OffsetsIncrease ==
    (HasCtx /\ ctx.last_call = "process" /\ ctx.state \in {"Done", "Errored"}) =>
        LET out == Output(ctx)
        IN  \A i \in 1..(Len(out) - 1) : out[i].mem_ptr < out[i + 1].mem_ptr

\* C8: every process call that returns success leaves an output whose last token
\* is EOF and which holds exactly one EOF token.
C8_EndsWithOneEof ==
    ProcessSucceeded =>
        LET out == Output(ctx)
        IN  /\ Len(out) > 0
            /\ out[Len(out)].type = TOKEN_EOF
            /\ Cardinality({i \in 1..Len(out) : out[i].type = TOKEN_EOF}) = 1


(***************************************************************************)
(* Claims about the compiled-pattern cache                                 *)
(***************************************************************************)
HeldBy(t) == {held[t][i] : i \in DOMAIN held[t]}

\* C2: under concurrent compile_r_pattern calls the cache never holds two
\* entries with the same pattern text, and two references held at the same time
\* for the same text are the same Pattern.
C2_NoDuplicateEntries ==
    /\ \A i, j \in DOMAIN pattern_cache :
          (/\ i # j
           /\ ~heap[pattern_cache[i]].data_null
           /\ ~heap[pattern_cache[j]].data_null)
             => heap[pattern_cache[i]].text # heap[pattern_cache[j]].text
    /\ \A t1, t2 \in Threads : \A p \in HeldBy(t1), q \in HeldBy(t2) :
          heap[p].text = heap[q].text => p = q

\* C3: a Pattern is destroyed only when no caller holds a reference to it, a
\* lookup never increments a Pattern whose count had dropped to zero, and a
\* Pattern is freed at most once.
C3_DestroyedOnlyUnheld ==
    \A p \in DOMAIN heap :
        /\ heap[p].frees <= 1
        /\ ~heap[p].revived
        /\ (heap[p].frees > 0 \/ heap[p].data_null) =>
              \A t \in Threads : p \notin HeldBy(t)

\* C10: with one thread, between calls, a text with n > 0 unreleased compiles
\* has exactly one cache entry, every one of the n references is that Pattern
\* and its count is n; a text with no unreleased compile has no entry and every
\* Pattern made for it was freed once; a compile that missed returned a fresh
\* Pattern with count 1.
RefsOf(x) == {i \in DOMAIN held[1] : heap[held[1][i]].text = x}
EntriesOf(x) == {i \in DOMAIN pattern_cache : heap[pattern_cache[i]].text = x}

C10_CountTracksCalls ==
    pc[1] = "idle" =>
        /\ \A x \in CacheTexts :
              IF RefsOf(x) # {}
              THEN \E i \in EntriesOf(x) :
                      /\ EntriesOf(x) = {i}
                      /\ heap[pattern_cache[i]].ref_count = Cardinality(RefsOf(x))
                      /\ heap[pattern_cache[i]].frees = 0
                      /\ ~heap[pattern_cache[i]].data_null
                      /\ \A k \in RefsOf(x) : held[1][k] = pattern_cache[i]
              ELSE /\ EntriesOf(x) = {}
                   /\ \A p \in DOMAIN heap :
                         heap[p].text = x => heap[p].frees = 1 /\ heap[p].data_null
        /\ (loc[1].op = "compile" /\ ~loc[1].hit) =>
              /\ loc[1].ret = Len(heap)
              /\ heap[loc[1].ret].ref_count = 1
              /\ \E i \in DOMAIN pattern_cache : pattern_cache[i] = loc[1].ret

\* a Pattern was released to zero and freed, the same text was compiled again
\* into a fresh Pattern, and a second compile found it
C10_Witness ==
    /\ pc[1] = "idle"
    /\ \E p, q \in DOMAIN heap :
          /\ p < q
          /\ heap[p].text = heap[q].text
          /\ heap[p].frees = 1
          /\ heap[q].ref_count = 2
          /\ loc[1].op = "compile" /\ loc[1].hit /\ loc[1].ret = q

\* C11: when the threads that each hold one reference to the one cached
\* Pattern release it concurrently and nothing else runs, exactly one release
\* takes the last-reference branch: at most one call ever does, the Pattern is
\* freed at most once and never touched after its free, and when all calls have
\* returned one call has removed the entry and freed the Pattern.
AllReturned == \A t \in DOMAIN pc : pc[t] = "idle" /\ held[t] = <<>>
Released == {t \in DOMAIN loc : loc[t].op = "release"}
LastReleases == {t \in Released : loc[t].last}

C11_OneFinalRelease ==
    /\ ~hist.uaf
    /\ Cardinality(LastReleases) <= 1
    /\ \A p \in DOMAIN heap :
          /\ heap[p].frees <= 1
          /\ heap[p].frees > 0 => \A t \in DOMAIN held : p \notin HeldBy(t)
          /\ (AllReturned /\ Released # {}) =>
                /\ Cardinality(LastReleases) = 1
                /\ heap[p].frees = 1
                /\ heap[p].data_null
                /\ pattern_cache = <<>>

\* three threads or more released the same Pattern and all calls have returned
C11_Witness ==
    /\ AllReturned
    /\ Cardinality(Released) >= 3
    /\ \E p \in DOMAIN heap : heap[p].frees = 1 /\ \A t \in Released : loc[t].p = p

\* C12: rift_regex_compile returns no Pattern when the pattern text is empty or
\* longer than RIFT_MAX_PATTERN_LENGTH: every Pattern compiled from text has a
\* text of 1 to RIFT_MAX_PATTERN_LENGTH characters.
C12_RejectsEmptyOrLong ==
    \A i \in DOMAIN regs :
        ~regs[i].is_composed => regs[i].pattern_length \in 1..RIFT_MAX_PATTERN_LENGTH

\* the characters of a pattern text the compile loop makes states for
RECURSIVE Unskipped(_, _)
Unskipped(pattern, i) ==
    IF i > Len(pattern) THEN <<>>
    ELSE IF SkipMarker(pattern, i) THEN Unskipped(pattern, i + 1)
    ELSE <<pattern[i]>> \o Unskipped(pattern, i + 1)

\* C13: every Pattern that compile or compose returns has a non-null root state
\* and, for compile, the chain for all of its text, whichever allocation failed.
C13_NoPartialPattern ==
    \A i \in DOMAIN regs :
        /\ regs[i].start_state # NULL
        /\ ~regs[i].is_composed =>
              ChainLabels(regs[i].states, regs[i].start_state)
                  = Unskipped(regs[i].pattern, 1)

\* the text the spec gives a composition: the operands in parentheses around the
\* operator's symbol, the NAND as the negation of the parenthesized AND
CombinedText(op, a, b) ==
    LET pair(sym) == <<"(">> \o a \o <<")">> \o <<sym>> \o <<"(">> \o b \o <<")">>
    IN  IF op = "nand" THEN <<"~", "(">> \o pair("&") \o <<")">>
        ELSE pair(CASE op = "and" -> "&" [] op = "or" -> "|" [] op = "xor" -> "^")

C15_Deterministic ==
    [][/\ (/\ dfa_run.called
           /\ dfa_run'.runs > dfa_run.runs
           /\ dfa_run'.start = dfa_run.start
           /\ dfa_run'.input = dfa_run.input) => dfa_run'.result = dfa_run.result
       /\ (/\ rx_last.called
           /\ rx_last'.finds > rx_last.finds
           /\ rx_last'.regex = rx_last.regex
           /\ rx_last'.input = rx_last.input) =>
               /\ rx_last'.found = rx_last.found
               /\ rx_last'.match_start = rx_last.match_start
               /\ rx_last'.match_length = rx_last.match_length]_vars

\* a search was run twice, found a match that does not start the input, and the
\* counter of the state it ends in was incremented by both searches
C15_Witness ==
    /\ rx_last.called
    /\ rx_last.finds = 2
    /\ rx_last.found
    /\ rx_last.match_start > 0
    /\ \E q \in DOMAIN regs[rx_last.regex].states :
          regs[rx_last.regex].states[q].match_count >= 2

(***************************************************************************)
(* Claims about rift_token_is_valid                                        *)
(***************************************************************************)
\* C16: rift_token_is_valid returns false for every token whose kind is greater
\* than the largest category of the enumeration (TOKEN_DFA_STATE), up to 255.
C16_RejectsKindsAboveEnum ==
    (tk.called /\ tk.checked /\ tk.token.type > TOKEN_DFA_STATE) => ~tk.valid

\* C17: every token whose kind is an enumerated category and whose offset lies
\* in 0..65535 is reported valid.
C17_OnlySixteenBitBound ==
    (/\ tk.called /\ tk.checked
     /\ tk.token.type \in TOKEN_UNKNOWN..TOKEN_DFA_STATE
     /\ tk.token.mem_ptr \in 0..65535) => tk.valid

(***************************************************************************)
(* Claims about the session's errors and its input                         *)
(***************************************************************************)
\* the offset of the failure is on record: in error_position, or in the message
RecordedOffset(c) ==
    \/ c.error_position = Cursor(c)
    \/ c.error_message = "Token buffer overflow at position " \o ToString(Cursor(c))

\* C18: a process call that fails because the output cannot take another token
\* returns failure with has_error set, a non-empty message and the cursor position
\* on record as the error offset, and the tokens emitted before the failure are
\* still the output.
C18_OverflowReported ==
    (HasCtx /\ ctx.last_call = "process" /\ ctx.state = "Errored") =>
        /\ ~ctx.last_ret
        /\ ctx.has_error
        /\ ctx.error_message \notin {"", "NULL"}
        /\ RecordedOffset(ctx)
        /\ Len(Output(ctx)) = ctx.token_count
        /\ \A i \in 1..ctx.token_count : Output(ctx)[i].mem_ptr < Cursor(ctx)

\* C19: after every session operation that returned failure has_error is true
\* and the error message is not empty.
C19_FailuresReported ==
    (HasCtx /\ ctx.state # "Processing" /\ ~ctx.last_ret) =>
        /\ ctx.has_error
        /\ ctx.error_message \notin {"", "NULL"}

\* C20: immediately after every successful set_input the token count is 0 and
\* the session reports no tokens, in both implementations.
C20_SetInputDiscardsTokens ==
    (HasCtx /\ ctx.last_call = "set_input" /\ ctx.last_ret) =>
        /\ ctx.token_count = 0
        /\ Output(ctx) = <<>>

(***************************************************************************)
(* Claims about rift_tokenizer_reset and the session's states              *)
(***************************************************************************)
\* the tokens a process of tokenizer.c leaves for an input: one per character, at
\* the character's offset, then EOF at the input's length
CharTokens(input) ==
    [i \in 1..Len(input) |->
        [type |-> CoreClassify(input[i]), mem_ptr |-> i - 1, value |-> 0]]

EofToken(offset) == [type |-> TOKEN_EOF, mem_ptr |-> offset, value |-> 0]

\* the session was reset after a process call that ended in Done or Errored, and
\* a process call since then has returned
ProcessedAfterReset ==
    /\ HasCtx
    /\ ctx.reset_from \in {"Done", "Errored"}
    /\ ctx.last_call = "process"
    /\ ctx.state \in {"Done", "Errored"}

\* what a reset step does to the session
ResetEffects ==
    (HasCtx /\ ctx'.last_call = "reset") =>
        /\ ctx'.token_count = 0
        /\ ctx'.position = 0
        /\ ~ctx'.has_error
        /\ ctx'.error_message = "NULL"
        /\ ctx'.tokens = ctx.tokens
        /\ ctx'.token_capacity = ctx.token_capacity
        /\ ctx'.input_null = ctx.input_null
        /\ ctx'.input_buffer = ctx.input_buffer
        /\ ctx'.input_length = ctx.input_length

\* C21 (as stated): reset, from Done or Errored, sets the token count and the
\* cursor to 0, clears has_error and the message and leaves the token buffer, its
\* capacity and the input unchanged, and the process call that follows succeeds
\* with the token stream of a process on a freshly set identical input.
C21_ResetThenProcessSucceeds ==
    /\ [][ResetEffects]_vars
    /\ [](ProcessedAfterReset =>
            /\ ctx.last_ret
            /\ ctx.state = "Done"
            /\ SubSeq(Output(ctx), 1, ctx.input_length) = CharTokens(ctx.input_buffer))

\* C21 (amended): the same effects of reset, and the process call that follows
\* does what a process on a freshly set identical input does: it succeeds with
\* one token per character and the EOF token when a slot is left for it, and it
\* fails, with the tokens of the characters before the failure as its output,
\* only when the token buffer is full and its growth fails.
C21_ResetThenProcessAsFresh ==
    /\ [][ResetEffects]_vars
    /\ [](ProcessedAfterReset =>
            LET out == Output(ctx)
                all == CharTokens(ctx.input_buffer)
            IN  IF ctx.state = "Done"
                THEN /\ ctx.last_ret
                     /\ out = IF ctx.input_length < ctx.token_capacity
                              THEN Append(all, EofToken(ctx.input_length))
                              ELSE all
                ELSE /\ ~ctx.last_ret
                     /\ ctx.has_error
                     /\ ctx.token_count = ctx.token_capacity
                     /\ ctx.token_count < ctx.input_length
                     /\ out = SubSeq(all, 1, ctx.token_count))

\* a session that failed, was reset, and then processed its two characters
C21_Witness ==
    /\ HasCtx
    /\ ctx.reset_from = "Errored"
    /\ ProcessSucceeded
    /\ ctx.token_count = 2

\* C22: a process call on an empty input (set_input with length 0) succeeds and
\* leaves exactly one token, EOF at offset 0, whatever the capacity, in both
\* implementations.
C22_EmptyInputOneEof ==
    (/\ HasCtx
     /\ ctx.last_call = "process"
     /\ ctx.state \in {"Done", "Errored"}
     /\ ~ctx.input_null
     /\ ctx.input_length = 0) =>
        /\ ctx.last_ret
        /\ ctx.state = "Done"
        /\ Output(ctx) = <<EofToken(0)>>

\* an empty input processed by a session whose buffer holds the tokens of an
\* earlier, longer input
C22_Witness ==
    /\ ProcessSucceeded
    /\ ctx.input_length = 0
    /\ Len(ctx.tokens) > 1
    /\ ctx.token_count = 1

(***************************************************************************)
(* Claims about the governance validator                                   *)
(***************************************************************************)
\* validate_token in strict mode, as the spec defines it: the token is valid, its
\* kind is not the unknown category and its offset is a multiple of the alignment 4
GovernanceAccepts(token) ==
    /\ rift_token_is_valid(token)
    /\ token.type # TOKEN_UNKNOWN
    /\ token.mem_ptr % 4 = 0

\* C23: every token process appends to the output has passed the governance
\* validator: the output never holds a token that validate_token rejects, for an
\* invalid encoding, an unknown kind or an offset that is not a multiple of 4.
C23_OutputPassedGovernance ==
    (HasCtx /\ ctx.last_call = "process") =>
        \A i \in 1..ctx.token_count : GovernanceAccepts(Output(ctx)[i])

\* C24: with alignment 4, validate_token_triplet returns a policy violation for
\* every otherwise valid token whose offset is not a multiple of 4, and passes
\* every otherwise valid token whose offset is one.
C24_AlignmentEnforced ==
    (/\ tk.called /\ tk.validated
     /\ tk.token.type \in TOKEN_UNKNOWN..TOKEN_ERROR) =>
        (tk.policy = "RIFT_ERROR_POLICY_VIOLATION" <=> tk.token.mem_ptr % 4 # 0)

(***************************************************************************)
(* Claims about the handshake                                              *)
(***************************************************************************)
\* C25: a wait_for_context(X) call does not return before some thread has
\* called signal_context_switch(X): every wait that has returned found its mode
\* signalled.
C25_WaitReturnsAfterSignal ==
    \A t \in HsThreads :
        handshake.last[t].op = "wait" => handshake.last[t].signalled

(***************************************************************************)
(* Claims about flag strings                                               *)
(***************************************************************************)
\* the letters of a flag string
LettersOf(flag_string) == {flag_string[i] : i \in DOMAIN flag_string}

\* the bits the spec gives the letters g, m, i, t, b: global, multiline,
\* ignore-case, top-down, bottom-up
BitsOf(letters) ==
    {TOKEN_FLAG_GLOBAL : x \in letters \cap {"g"}}
        \cup {TOKEN_FLAG_MULTILINE : x \in letters \cap {"m"}}
        \cup {TOKEN_FLAG_IGNORECASE : x \in letters \cap {"i"}}
        \cup {TOKEN_FLAG_TOPDOWN : x \in letters \cap {"t"}}
        \cup {TOKEN_FLAG_BOTTOMUP : x \in letters \cap {"b"}}

DfaBitsOf(letters) ==
    {"DFA_FLAG_GLOBAL" : x \in letters \cap {"g"}}
        \cup {"DFA_FLAG_MULTILINE" : x \in letters \cap {"m"}}
        \cup {"DFA_FLAG_INSENSITIVE" : x \in letters \cap {"i"}}
        \cup {"DFA_FLAG_TOP_DOWN" : x \in letters \cap {"t"}}
        \cup {"DFA_FLAG_BOTTOM_UP" : x \in letters \cap {"b"}}

\* C26: both parsers set exactly the bits of the letters among g, m, i, t, b that
\* occur in the flag string, whatever their order and number and whatever other
\* characters it holds; rift_regex_compile stores the flags it is given and
\* returns a Pattern whose root state is non-null and marked is_start.
C26_FlagsParsedAndStored ==
    rx_last.called =>
        /\ rx_last.flags = BitsOf(LettersOf(rx_last.flag_string))
        /\ rx_last.dfa_flags = DfaBitsOf(LettersOf(rx_last.flag_string))
        /\ \A i \in DOMAIN regs :
              /\ regs[i].flags = BitsOf(LettersOf(regs[i].from[2]))
              /\ regs[i].start_state # NULL
              /\ regs[i].states[regs[i].start_state].is_start

\* a pattern compiled with the flags of "ixg": global and ignore-case
C26_Witness ==
    /\ rx_last.called
    /\ \E i \in DOMAIN regs :
          /\ regs[i].from = <<"flags", <<"i", "x", "g">>>>
          /\ regs[i].flags = {TOKEN_FLAG_GLOBAL, TOKEN_FLAG_IGNORECASE}
          /\ regs[i].pattern # <<>>

(***************************************************************************)
(* Claims about the automaton of a Pattern                                 *)
(***************************************************************************)
\* C27: in the automaton of every Pattern that compile or a compose returns (no
\* allocation having failed) exactly one state has is_start = true, that state is
\* the Pattern's root, and the state ids are unique.
C27_ExactlyOneStart ==
    \A i \in DOMAIN regs :
        ~regs[i].alloc_failed =>
            LET h == regs[i].states
            IN  /\ regs[i].start_state # NULL
                /\ {q \in DOMAIN h : h[q].is_start} = {regs[i].start_state}
                /\ \A q, r \in DOMAIN h : h[q].state_id = h[r].state_id => q = r

(***************************************************************************)
(* Claims about process without an input                                   *)
(***************************************************************************)
\* C29: a process call on a session in state Created (no set_input has
\* succeeded) returns failure, emits no token, and leaves the token count, the
\* cursor and the token buffer as they were.
C29_ProcessNeedsInput ==
    [][(HasCtx /\ ctx.state = "Created" /\ ctx'.last_call = "process") =>
          /\ ~ctx'.last_ret
          /\ ctx'.state = "Created"
          /\ ctx'.token_count = ctx.token_count
          /\ ctx'.tokens = ctx.tokens
          /\ ctx'.position = ctx.position
          /\ ctx'.pos = ctx.pos]_vars

\* a process call has failed on a session that was never given an input
C29_Witness ==
    /\ HasCtx
    /\ ctx.state = "Created"
    /\ ctx.last_call = "process"
    /\ ~ctx.last_ret
    /\ ctx.reset_from = "none"

(***************************************************************************)
(* Claims about a full cache                                               *)
(***************************************************************************)
\* C30: a Pattern that compile_r_pattern returned from a miss is in the cache
\* with count 1, whatever the occupancy of the cache was: while the caller holds
\* it, the cache scan for its text finds that Pattern, so the next compile of the
\* text returns it.
C30_MissIsCached ==
    \A t \in Threads :
        (/\ pc[t] = "idle"
         /\ loc[t].op = "compile"
         /\ ~loc[t].hit
         /\ loc[t].ret \in HeldBy(t)) =>
            /\ heap[loc[t].ret].ref_count = 1
            /\ CacheLookup(loc[t].text) # 0
            /\ pattern_cache[CacheLookup(loc[t].text)] = loc[t].ret

(***************************************************************************)
(* Claims about the search                                                 *)
(***************************************************************************)
\* the windows [i, j) of the last searched input that the searched pattern matches
MatchWindows ==
    LET input == rx_last.input
    IN  {w \in (0..Len(input)) \X (0..Len(input)) :
            /\ w[1] < Len(input)
            /\ w[1] <= w[2]
            /\ rift_regex_match(regs[rx_last.regex],
                                SubSeq(input, w[1] + 1, w[2])).matched}

FindStep == rx_last'.called /\ rx_last' # rx_last /\ "found" \in DOMAIN rx_last'

\* C31: rift_regex_find returns true iff some window [i, j) with i < length and
\* i <= j <= length matches; the reported start is the least such i, the reported
\* length the least j - i at that start, and the span lies inside the input; a
\* search that finds nothing leaves match_start and match_length as they were.
C31_FindFirstShortest ==
    /\ []((rx_last.called /\ "found" \in DOMAIN rx_last) =>
            /\ rx_last.found <=> MatchWindows # {}
            /\ rx_last.found =>
                  /\ <<rx_last.match_start,
                       rx_last.match_start + rx_last.match_length>> \in MatchWindows
                  /\ \A w \in MatchWindows :
                        /\ rx_last.match_start <= w[1]
                        /\ w[1] = rx_last.match_start =>
                              rx_last.match_length <= w[2] - w[1]
                  /\ rx_last.match_start + rx_last.match_length
                        <= Len(rx_last.input))
    /\ [][(FindStep /\ ~rx_last'.found) =>
            /\ rx_last'.match_start = (IF rx_last.called THEN rx_last.match_start ELSE 0)
            /\ rx_last'.match_length = (IF rx_last.called THEN rx_last.match_length ELSE 0)]_vars

\* a search that found the pattern after the first character of the input
C31_Witness ==
    /\ rx_last.called /\ "found" \in DOMAIN rx_last
    /\ rx_last.found
    /\ rx_last.match_start > 0
    /\ rx_last.match_length > 0

(***************************************************************************)
(* Claims about the classification of characters                           *)
(***************************************************************************)
OperatorChars  == {"+", "-", "*", "/", "%", "=", "<", ">", "!", "&", "|", "^", "~"}
DelimiterChars == {"(", ")", "{", "}", "[", "]", ";", ",", "."}

\* the kind the fixed precedence gives the character at index i (1-based) of
\* input: identifier-start, digit, whitespace, operator character, delimiter
\* character, R-pattern start, else unknown
FixedPrecedence(input, i) ==
    LET ch == input[i]
    IN  IF isalpha(ch) \/ ch = "_" THEN TOKEN_IDENTIFIER
        ELSE IF isdigit(ch) THEN TOKEN_LITERAL_NUMBER
        ELSE IF isspace(ch) THEN TOKEN_WHITESPACE
        ELSE IF ch \in OperatorChars THEN TOKEN_OPERATOR
        ELSE IF ch \in DelimiterChars THEN TOKEN_PUNCTUATION
        ELSE IF ch = "R" /\ i < Len(input) /\ IsQuote(input[i + 1])
        THEN TOKEN_REGEX_START
        ELSE TOKEN_UNKNOWN

\* C32: every token of a successful process call, the closing EOF token apart,
\* has the kind the fixed precedence gives the character at its offset, and every
\* character of the input has one token.
C32_ClassifiedByPrecedence ==
    ProcessSucceeded =>
        LET out == Output(ctx)
            n   == ctx.input_length
        IN  /\ Len(out) >= n
            /\ \A i \in 1..n :
                  /\ out[i].mem_ptr = i - 1
                  /\ out[i].type = FixedPrecedence(ctx.input_buffer, i)

(***************************************************************************)
(* Claims about the line and column counters                               *)
(***************************************************************************)
\* the indices (1-based) of the newline characters of text
NewlinesIn(text) == {i \in DOMAIN text : text[i] = "\n"}

\* the index of the last newline of text, 0 when it has none
LastNewline(text) ==
    IF NewlinesIn(text) = {} THEN 0
    ELSE CHOOSE i \in NewlinesIn(text) : \A k \in NewlinesIn(text) : k <= i

\* C33: in tokenizer_rules.c, once set_input has succeeded, line_number is 1 plus
\* the number of newlines in the consumed prefix input[0, current_position) and
\* column_number is 1 plus the number of characters consumed since the last
\* newline of that prefix, at every step of process.
C33_LineColumnTrackPrefix ==
    (HasCtx /\ ctx.impl = "rules" /\ ~ctx.input_null) =>
        LET consumed == SubSeq(ctx.input_buffer, 1, ctx.position)
        IN  /\ ctx.line_number = 1 + Cardinality(NewlinesIn(consumed))
            /\ ctx.column_number = 1 + (Len(consumed) - LastNewline(consumed))

\* process has consumed a newline and one character after it
C33_Witness ==
    /\ HasCtx /\ ctx.impl = "rules" /\ ~ctx.input_null
    /\ ctx.last_call = "process"
    /\ ctx.position = 2
    /\ ctx.line_number = 2
    /\ ctx.column_number = 2

(***************************************************************************)
(* Claims about R-pattern literals                                         *)
(***************************************************************************)
\* the <flags> of a literal: what follows its last quote character
FlagsPart(text) ==
    LET quotes == {i \in DOMAIN text : IsQuote(text[i])}
        last   == CHOOSE i \in quotes : \A k \in quotes : k <= i
    IN  SubSeq(text, last + 1, Len(text))

\* C34: compile_r_pattern of an R-pattern literal, in either quote style, yields
\* a pattern of the R-pattern kind whose stored flags, and the flags written to
\* the caller, are the parse of the literal's <flags>, whatever the caller's flags
\* variable held before the call.
C34_QuoteStylesAlike ==
    (pc[1] = "idle" /\ loc[1].op = "compile" /\ loc[1].text \in LiteralTexts) =>
        /\ heap[loc[1].ret].token_type = "TOKEN_R_PATTERN"
        /\ heap[loc[1].ret].flags = parse_r_pattern_flags(FlagsPart(loc[1].text))
        /\ loc[1].flags_out = parse_r_pattern_flags(FlagsPart(loc[1].text))

(***************************************************************************)
(* Claims about matching a compiled text                                   *)
(***************************************************************************)
\* the last call matched a Pattern compiled (no allocation having failed) from a
\* non-empty text without a quote character
MatchedPlainPattern ==
    /\ rx_last.called
    /\ "matched" \in DOMAIN rx_last
    /\ ~regs[rx_last.regex].is_composed
    /\ ~regs[rx_last.regex].alloc_failed
    /\ regs[rx_last.regex].pattern # <<>>
    /\ \A k \in DOMAIN regs[rx_last.regex].pattern :
          ~IsQuote(regs[rx_last.regex].pattern[k])

\* C35: for a non-empty pattern text p without a quote character,
\* rift_regex_match(rift_regex_compile(p), s, |s|) is true iff s = p: a proper
\* prefix of p, an extension of p and a text that differs in a character are
\* rejected.
C35_MatchesExactlyItsText ==
    MatchedPlainPattern =>
        (rx_last.matched <=> rx_last.input = regs[rx_last.regex].pattern)

\* a two-character text matched its own Pattern
C35_Witness ==
    /\ MatchedPlainPattern
    /\ rx_last.matched
    /\ Len(rx_last.input) = 2

(***************************************************************************)
(* Claims about repeated process calls                                     *)
(***************************************************************************)
\* the first of the two calls failed because the token buffer could not grow
FirstLackedMemory == ctx.impl = "core" /\ ~ctx.input_null /\ ~ctx.repeat_of.ret

\* C36: a process call that directly follows another process call on the same
\* session (no set_input or reset in between) returns what the first returned
\* and leaves the same token stream, in both implementations (no allocation
\* having failed).
C36_ProcessRepeatable ==
    (/\ HasCtx
     /\ ctx.last_call = "process"
     /\ ctx.state # "Processing"
     /\ ctx.repeat_of.valid
     /\ ~FirstLackedMemory) =>
        /\ ctx.last_ret = ctx.repeat_of.ret
        /\ Output(ctx) = ctx.repeat_of.out

(***************************************************************************)
(* Claims about the error flag after a successful process                  *)
(***************************************************************************)
\* C37: whenever process has returned success, rift_tokenizer_has_error reports
\* false, whatever preceded the call: a session is never both Done and errored.
C37_DoneIsNotErrored ==
    ProcessSucceeded => ~ctx.has_error

(***************************************************************************)
(* Claims about the streaming interface                                    *)
(***************************************************************************)
\* C38: in tokenizer.c, the next_token calls that follow a successful process
\* call return the tokens of its output from the first on, each once and in the
\* order of get_tokens, and after the last one an EOF token with the error flag,
\* also when next_token was called before that process call.
C38_StreamFromFirstToken ==
    (HasCtx /\ ctx.impl = "core" /\ ctx.state = "Done" /\ ~ctx.input_null) =>
        \A k \in DOMAIN ctx.streamed :
            ctx.streamed[k] =
                IF k <= ctx.token_count THEN Output(ctx)[k]
                ELSE [type |-> TOKEN_EOF, mem_ptr |-> 0, value |-> TOKEN_FLAG_ERROR]

(***************************************************************************)
(* Claims about cleanup_tokenizer_utilities                                *)
(***************************************************************************)
\* C39: cleanup_tokenizer_utilities never blocks on pattern_cache_mutex, whatever
\* the cache holds, and when it has returned the cache is empty and the mutex is
\* unlocked.
C39_CleanupReturns ==
    /\ pc[1] # "cl_blocked"
    /\ (pc[1] = "idle" /\ loc[1].op = "cleanup") =>
          (pattern_cache = <<>> /\ mutex = 0)

=============================================================================
